---- MODULE Spec2Model ----
(***************************************************************************)
(* Training control plane of Snake-ML: the prioritized replay buffer, the  *)
(* n-step / lambda return accumulator, the checkpoint manager with the     *)
(* disk guard, the adaptive scheduler's cooldown-gated rules, the metrics  *)
(* windows, and the training loop that ties them together.                 *)
(*                                                                         *)
(* Numbers.  Priorities are counted in units of 2^-36 (0.001 is 68719477   *)
(* units), so that a Float32Array store, which keeps 24 significant bits,  *)
(* is a real rounding.  Rewards, gamma and lambda are fixed-point numbers  *)
(* in units of 1/Unit (1e-4), as are lrScale and the reward weights.       *)
(* Exploration floors and the PER exponents are in units of 1e-6, the      *)
(* exploration decay in units of 0.01 episode, learning rates in units of  *)
(* 1e-8.  State vectors are opaque tags; wall-clock times are in           *)
(* milliseconds.                                                           *)
(***************************************************************************)
EXTENDS Integers, Sequences, FiniteSets, TLC

\* ---------------------------------------------------------------- bounds
MaxCap == 3
MaxPushes == 5
MaxSaves == 2
MaxCrashes == 1
MaxTicks == 2
MaxRetain == 2
MaxCalls == 3
MaxOps == 1
MaxBlocks == 8

\* ------------------------------------------------------- generic helpers
Min(a, b) == IF a < b THEN a ELSE b
Max(a, b) == IF a > b THEN a ELSE b

RECURSIVE Pow2(_)
Pow2(k) == IF k <= 0 THEN 1 ELSE 2 * Pow2(k - 1)

RECURSIVE BitLen(_)
BitLen(x) == IF x <= 0 THEN 0 ELSE 1 + BitLen(x \div 2)

\* A store into a Float32Array: round to 24 significant bits, ties to even.
Fround(x) ==
  IF BitLen(x) <= 24 THEN x
  ELSE LET sh == BitLen(x) - 24
           q == x \div Pow2(sh)
           rem == x % Pow2(sh)
           half == Pow2(sh - 1)
           up == rem > half \/ (rem = half /\ q % 2 = 1)
       IN (IF up THEN q + 1 ELSE q) * Pow2(sh)

\* x | 0 for the action index and !!x for the terminal flag.
ToInt32(x) == IF x \in Int THEN x ELSE 0
ToBool(x) == x = TRUE

\* --------------------------------------------------------- replay buffer
PriorityEpsDefault == 68719477
Micro == 1000000
PriorityAlphaDefault == 600000
PriorityBetaDefault == 400000
BetaIncrementDefault == 2
FracDen == 4
Fractions == {0, 2, 3, 4, 6}

\* PrioritizedReplayBuffer fields; pushCount, onlyPushes and bufOp (the last
\* operation, the buffer before it and its argument) are history variables,
\* as are opCount (calls other than push), bufPre (the other fields before
\* the last operation), sampled (what the last sample call returned) and
\* learnerUpdates (gradient steps the agent has applied).
VARIABLES capacity, buffer, position, priorities, maxPriority, priorityEps,
          alpha, beta, betaIncrement, pushCount, onlyPushes, bufOp,
          opCount, bufPre, sampled, learnerUpdates

bufVars == <<capacity, buffer, position, priorities, maxPriority, priorityEps,
             alpha, beta, betaIncrement, pushCount, onlyPushes, bufOp,
             opCount, bufPre, sampled, learnerUpdates>>

\* NStepAccumulator fields; the rest are history variables: the raw
\* transitions pushed and the shaped ones emitted in the current episode,
\* whether the episode ran undisturbed from an empty queue, the last operation.
VARIABLES n, gamma, lambda, queue,
          stepCount, reconfCount, epPushed, epEmitted, epClean, accOp

accVars == <<n, gamma, lambda, queue,
             stepCount, reconfCount, epPushed, epEmitted, epClean, accOp>>

\* The save directory as CheckpointManager and DiskGuard see it (fs), the
\* position of the running save (pc, cur), the DiskGuard fields, the wall
\* clock in milliseconds; savesDone, crashCount, tickCount, lastPruned (the
\* directories the last prune called removeDir on), pruneOp (what the last
\* pruneCheckpoints call of a save found and did) and lastSave (the last save
\* that completed) are history variables.
VARIABLES fs, pc, cur, saveSerial, now, lastPrune, retainCheckpoints, saveCapMB,
          savesDone, crashCount, tickCount, lastPruned, pruneOp, lastSave

fsVars == <<fs, pc, cur, saveSerial, now, lastPrune, retainCheckpoints, saveCapMB,
            savesDone, crashCount, tickCount, lastPruned, pruneOp, lastSave>>

\* DQNAgent hyperparameters (agent; its nStep and gamma are n and gamma
\* above, its priority exponents alpha and beta of the buffer), the
\* AutoScheduler fields (sched), the reward configuration, the episode of
\* the last tuneHyperparams call and the adjustments it returned; callCount,
\* fires (per rule key, the episodes at which the rule fired) and blocked (the
\* keys _canAdjust has refused so far) are history variables.
VARIABLES agent, sched, rewardConfig, episode, adjustments,
          callCount, fires, blocked

schedVars == <<agent, sched, rewardConfig, episode, adjustments,
               callCount, fires, blocked>>

\* The training loop's episode counter and the moving average of fruits over
\* the last 100 episodes, the scheduler's evaluation fields; blockCount,
\* maHistory (maFruit100 at the end of every block of episodes), evalOp (what
\* the last block did) and rollbacks are history variables.
VARIABLES totalEpisodes, maFruit100, bestEval, bestEvalEpisode, lastEvalEpisode,
          blockCount, maHistory, evalOp, rollbacks

evalVars == <<totalEpisodes, maFruit100, bestEval, bestEvalEpisode, lastEvalEpisode,
              blockCount, maHistory, evalOp, rollbacks>>

\* The curriculum: the scheduler's stage index and the episode of the last
\* stage change, the board size the environment runs on, maFruit500 as the
\* metrics summary gave it at the last finished episode.
VARIABLES boardIndex, lastBoardChangeEpisode, boardSize, maFruit500

boardVars == <<boardIndex, lastBoardChangeEpisode, boardSize, maFruit500>>

\* The log side of the DiskGuard and the TrainingLogger: the directory the
\* DiskGuard rotates in (guardLogDir), the contents of the two log
\* directories (logs), the DiskGuard's _lastLogPrune, retainLogs and logCapMB,
\* and the executions of pruneCheckpoints in progress (running); appendCount,
\* guardCalls and guardOp (the last DiskGuard call) are history variables.
VARIABLES guardLogDir, logs, lastLogPrune, retainLogs, logCapMB, running,
          appendCount, guardCalls, guardOp

guardVars == <<guardLogDir, logs, lastLogPrune, retainLogs, logCapMB, running,
               appendCount, guardCalls, guardOp>>

\* MetricsCollector fields: the episode and step counters (metricsSteps), the two rolling
\* windows of episode records and the RingBuffer of moving averages.
VARIABLES episodes, metricsSteps, window100, window500, maFruitHistory

metricsVars == <<episodes, metricsSteps, window100, window500, maFruitHistory>>

\* The training loop: the scheduler's lastCheckpointTime, the loop's marks of
\* the last checkpoint, what saveDir/best holds, the agent's weights (the
\* episode they were trained up to), the number of full environment resets,
\* stopRequested; prevSave (the last checkpoint and the last extra checkpoint
\* written) and loopOp (what the last processed episode did) are history
\* variables.
VARIABLES lastCheckpointTime, lastPeriodicCheckpointEpisode, lastPeriodicCheckpointTime,
          bestDir, agentParams, contextsEpoch, stopRequested, prevSave, loopOp

loopVars == <<lastCheckpointTime, lastPeriodicCheckpointEpisode, lastPeriodicCheckpointTime,
              bestDir, agentParams, contextsEpoch, stopRequested, prevSave, loopOp>>

\* The vectorised environment and the agent's accumulators, one per
\* environment: each accumulator's queue, each environment's episode and step,
\* the shaped transitions pushed during the last pass of the loop (history),
\* the number of passes.
VARIABLES envQueues, envEpisode, envSteps, emitted, envPasses

envVars == <<envQueues, envEpisode, envSteps, emitted, envPasses>>

restVars == <<metricsVars, loopVars, envVars>>

vars == <<bufVars, accVars, fsVars, schedVars, evalVars, boardVars, guardVars, restVars>>
exceptBuf == <<accVars, fsVars, schedVars, evalVars, boardVars, guardVars, restVars>>
exceptAcc == <<bufVars, fsVars, schedVars, evalVars, boardVars, guardVars, restVars>>
exceptFs == <<bufVars, accVars, schedVars, evalVars, boardVars, guardVars, restVars>>
exceptEval == <<bufVars, accVars, fsVars, schedVars, boardVars, guardVars, restVars>>

Zeros(len) == [i \in 1..len |-> 0]

\* The fields an operation may change besides the buffer array.
Snapshot ==
  [capacity |-> capacity, position |-> position, priorities |-> priorities,
   maxPriority |-> maxPriority, priorityEps |-> priorityEps, beta |-> beta,
   learnerUpdates |-> learnerUpdates]

\* sample() returned null
Null == [isNull |-> TRUE]

\* new PrioritizedReplayBuffer(cap, {alpha, betaIncrement}), the arguments
\* drawn from caps, alphas and incs
BufferNewOpts(caps, alphas, incs) ==
  /\ \E cap \in caps : capacity = Max(1, cap)
  /\ buffer = << >>
  /\ position = 0
  /\ priorityEps = PriorityEpsDefault
  /\ priorities = Zeros(capacity)
  /\ maxPriority = priorityEps
  /\ alpha \in alphas
  /\ beta = PriorityBetaDefault
  /\ betaIncrement \in incs
  /\ pushCount = 0
  /\ onlyPushes = TRUE
  /\ bufOp = [name |-> "new", pre |-> << >>, arg |-> 0]
  /\ opCount = 0
  /\ learnerUpdates = 0
  /\ sampled = Null
  /\ bufPre = Snapshot

\* new PrioritizedReplayBuffer(cap), cap drawn from caps
BufferNew(caps) == BufferNewOpts(caps, {PriorityAlphaDefault}, {BetaIncrementDefault})

\* The entry push() builds from its argument.
Entry(sample) ==
  [s |-> sample.s, a |-> ToInt32(sample.a), r |-> sample.r, ns |-> sample.ns,
   d |-> ToBool(sample.d), w |-> sample.w]

\* The slot (0-based) a push writes.
PushBadSlot(len, cap, pos) == IF len < cap THEN len ELSE (pos + 1) % cap
PushSlot(len, cap, pos) == IF len < cap THEN len ELSE pos % cap

\* The transitions the environment hands over: the state tag is the serial
\* number of the push, so a larger tag means a later insertion.
Samples(k) == {[s |-> k, a |-> k % 2, r |-> 0, ns |-> k + 1, d |-> FALSE, w |-> 1]}

push(sample) ==
  LET idx == PushSlot(Len(buffer), capacity, position)
  IN /\ buffer' = IF Len(buffer) < capacity
                    THEN Append(buffer, Entry(sample))
                    ELSE [buffer EXCEPT ![idx + 1] = Entry(sample)]
     /\ priorities' = [priorities EXCEPT ![idx + 1] = Fround(maxPriority)]
     /\ position' = (position + 1) % capacity
     /\ UNCHANGED <<capacity, maxPriority, priorityEps, alpha, beta, betaIncrement>>

Push ==
  /\ pushCount < MaxPushes
  /\ \E sample \in Samples(pushCount) : push(sample)
  /\ pushCount' = pushCount + 1
  /\ bufOp' = [name |-> "push", pre |-> buffer, arg |-> pushCount]
  /\ bufPre' = Snapshot
  /\ UNCHANGED <<onlyPushes, opCount, sampled, learnerUpdates, exceptBuf>>

\* setAlpha and setBeta: the value the buffer keeps.
setAlpha(val) == Max(Micro \div 100, val)
setBeta(val) == Min(Micro, Max(0, val))

\* clampFraction on a finite fraction f / FracDen
clampFraction(f) == Min(Max(f, 0), FracDen)

dropOldest(f) ==
  LET removeCount == (Len(buffer) * clampFraction(f)) \div FracDen
  IN IF removeCount <= 0
       THEN UNCHANGED <<capacity, buffer, position, priorities, maxPriority, priorityEps,
                        alpha, beta, betaIncrement>>
       ELSE /\ buffer' = SubSeq(buffer, removeCount + 1, Len(buffer))
            /\ priorities' = Zeros(capacity)
            /\ maxPriority' = priorityEps
            /\ position' = Len(buffer') % capacity
            /\ UNCHANGED <<capacity, priorityEps, alpha, beta, betaIncrement>>

DropOldest ==
  \E f \in Fractions :
    /\ dropOldest(f)
    /\ bufOp' = [name |-> "dropOldest", pre |-> buffer, arg |-> f]
    /\ onlyPushes' = FALSE
    /\ bufPre' = Snapshot
    /\ UNCHANGED <<pushCount, opCount, sampled, learnerUpdates, exceptBuf>>

\* setCapacity arguments, setPriorityEps arguments, TD errors handed to
\* updatePriorities, batch sizes and warmup lengths.
EpsFloor == 68719
EpsValues == {0, 4 * PriorityEpsDefault}
TdErrors == {0 - Pow2(28), Pow2(28), Pow2(29)}
BatchSizes == {1, 2}
WarmupSteps == {0, 2}

\* Bookkeeping shared by the calls other than push and dropOldest.
Called(name, arg) ==
  /\ opCount < MaxOps
  /\ opCount' = opCount + 1
  /\ bufOp' = [name |-> name, pre |-> buffer, arg |-> arg]
  /\ bufPre' = Snapshot
  /\ onlyPushes' = FALSE
  /\ UNCHANGED <<pushCount, exceptBuf>>

\* if (this.buffer.length > this.capacity) this.buffer = this.buffer.slice(-this.capacity)
sliceAll(buf, newCap) == buf

sliceNewest(buf, newCap) ==
  IF Len(buf) > newCap THEN SubSeq(buf, Len(buf) - newCap + 1, Len(buf)) ELSE buf

setCapacity(cap) ==
  LET newCap == Max(1, ToInt32(cap))
  IN IF newCap = capacity
       THEN UNCHANGED <<capacity, buffer, position, priorities, maxPriority>>
       ELSE /\ capacity' = newCap
            /\ buffer' = sliceNewest(buffer, newCap)
            /\ position' = Min(position, newCap - 1)
            /\ priorities' = Zeros(newCap)
            /\ maxPriority' = priorityEps

SetCapacity ==
  \E cap \in 0..MaxCap :
    /\ setCapacity(cap)
    /\ Called("setCapacity", cap)
    /\ UNCHANGED <<priorityEps, alpha, beta, betaIncrement, sampled, learnerUpdates>>

\* setPriorityEps: Math.max(1e-6, +val || 1e-6)
SetPriorityEps ==
  \E val \in EpsValues :
    /\ priorityEps' = Max(EpsFloor, val)
    /\ Called("setPriorityEps", val)
    /\ UNCHANGED <<capacity, buffer, position, priorities, maxPriority,
                   alpha, beta, betaIncrement, sampled, learnerUpdates>>

\* A store into priorities[idx]: ignored outside the typed array.
StorePriority(pri, idx, value) ==
  IF idx + 1 \in DOMAIN pri THEN [pri EXCEPT ![idx + 1] = Fround(value)] ELSE pri

\* updatePriorities(indices, tds): the priorities array and maxPriority after
\* the forEach has handled entries i..Len(indices).
\* this.maxPriority = Math.max(this.maxPriority, priority)
RunningMaxStale(maxP, priority) == maxP
RunningMax(maxP, priority) == Max(maxP, priority)

RECURSIVE updateLoop(_, _, _, _, _)
updateLoop(indices, tds, i, pri, maxP) ==
  IF i > Len(indices) THEN [priorities |-> pri, maxPriority |-> maxP]
  ELSE LET priority == Max(priorityEps, tds[i])
       IN updateLoop(indices, tds, i + 1,
                     StorePriority(pri, indices[i], priority), RunningMax(maxP, priority))

updatePriorities(indices, tds) ==
  \E r \in {updateLoop(indices, tds, 1, priorities, maxPriority)} :
    /\ priorities' = r.priorities
    /\ maxPriority' = r.maxPriority

UpdatePriorities ==
  \E idx \in 0..(capacity - 1), e \in TdErrors :
    /\ updatePriorities(<<idx>>, <<e>>)
    /\ Called("updatePriorities", [idx |-> idx, e |-> e])
    /\ UNCHANGED <<capacity, buffer, position, priorityEps,
                   alpha, beta, betaIncrement, sampled, learnerUpdates>>

\* p || this.priorityEps
Effective(p) == IF p = 0 THEN priorityEps ELSE p

SeqMin(seq) == CHOOSE x \in {seq[i] : i \in DOMAIN seq} : \A i \in DOMAIN seq : x <= seq[i]

\* The importance weight of a slot: (N * normalized[index]) ^ -beta over
\* maxWeight is ((p / pmin) ^ alpha) ^ -beta, kept as its four operands;
\* it is One when the base is 1 or an exponent is 0.
One == [p |-> 1, pmin |-> 1, alpha |-> 0, beta |-> 0]
Weight(p, pmin, a, b) ==
  IF p = pmin \/ a = 0 \/ b = 0 THEN One
  ELSE [p |-> p, pmin |-> pmin, alpha |-> a, beta |-> b]

\* What sample() returns when the cumulative walk stops at indices[i] for the
\* i-th Math.random() draw.
sampleResult(indices) ==
  LET eff == [i \in 1..Len(buffer) |-> Effective(priorities[i])]
  IN [isNull |-> FALSE,
      batch |-> [i \in DOMAIN indices |-> buffer[indices[i] + 1]],
      indices |-> indices,
      weights |-> [i \in DOMAIN indices |->
                     Weight(eff[indices[i] + 1], SeqMin(eff), alpha, beta)]]

\* The index sequences the draws of one sample(batchSize) call can produce:
\* every probability is positive, so each draw can stop at any stored entry.
Draws(batchSize) ==
  [1..Min(batchSize, Len(buffer)) -> 0..(Len(buffer) - 1)]

sample(batchSize, indices) ==
  IF Len(buffer) = 0
    THEN /\ sampled' = Null
         /\ UNCHANGED beta
    ELSE /\ sampled' = sampleResult(indices)
         /\ beta' = Min(Micro, beta + betaIncrement)

Sample ==
  \E batchSize \in BatchSizes :
    \E indices \in (IF Len(buffer) = 0 THEN {<< >>} ELSE Draws(batchSize)) :
      /\ sample(batchSize, indices)
      /\ Called("sample", batchSize)
      /\ UNCHANGED <<capacity, buffer, position, priorities, maxPriority, priorityEps,
                     alpha, betaIncrement, learnerUpdates>>

\* DQNAgent._learnOnce: sample, one gradient step, updatePriorities with the
\* absolute TD errors of the batch.
\* sample(batchSize) with batchSize the capacity
SampleFull ==
  \E indices \in (IF Len(buffer) = 0 THEN {<< >>} ELSE Draws(capacity)) :
    /\ sample(capacity, indices)
    /\ Called("sample", capacity)
    /\ UNCHANGED <<capacity, buffer, position, priorities, maxPriority, priorityEps,
                   alpha, betaIncrement, learnerUpdates>>

\* if (!sample) return null, for a sample drawn from len stored entries
NoSampleNever(len) == FALSE
NoSample(len) == len = 0

learnOnce(batchSize, indices, tds) ==
  /\ sample(batchSize, indices)
  /\ IF NoSample(Len(buffer))
       THEN UNCHANGED <<priorities, maxPriority, learnerUpdates>>
       ELSE /\ learnerUpdates' = learnerUpdates + 1
            /\ updatePriorities(indices, tds)

AbsTd(indices) == {[i \in DOMAIN indices |-> IF e < 0 THEN 0 - e ELSE e] : e \in TdErrors}

LearnOnce ==
  \E batchSize \in BatchSizes :
    \E indices \in (IF Len(buffer) = 0 THEN {<< >>} ELSE Draws(batchSize)) :
      \E tds \in AbsTd(indices) :
        /\ learnOnce(batchSize, indices, tds)
        /\ Called("learnOnce", batchSize)
        /\ UNCHANGED <<capacity, buffer, position, priorityEps, alpha, betaIncrement>>

\* DQNAgent.learn(1): nothing below the warmup size, else one _learnOnce.
Learn ==
  \E batchSize \in BatchSizes, warmupSteps \in WarmupSteps :
    IF Len(buffer) < Max(batchSize, warmupSteps)
      THEN /\ Called("learn", batchSize)
           /\ UNCHANGED <<capacity, buffer, position, priorities, maxPriority, priorityEps,
                          alpha, beta, betaIncrement, sampled, learnerUpdates>>
      ELSE \E indices \in Draws(batchSize) :
             \E tds \in AbsTd(indices) :
               /\ learnOnce(batchSize, indices, tds)
               /\ Called("learn", batchSize)
               /\ UNCHANGED <<capacity, buffer, position, priorityEps, alpha, betaIncrement>>

\* ------------------------------------------------- n-step accumulator
Unit == 10000
MaxN == 3
MaxSteps == 4
MaxReconf == 1
Rewards == {Unit, 2 * Unit}
Gammas == {9000, 5000}
Lambdas == {0, 5000, Unit}
LambdaPure == 9990

Mul(a, b) == (a * b) \div Unit

RECURSIVE PowFix(_, _)
PowFix(x, i) == IF i <= 0 THEN Unit ELSE Mul(x, PowFix(x, i - 1))

\* The item push() builds from its argument.
Item(step) ==
  [s |-> step.s, a |-> ToInt32(step.a), r |-> step.r, ns |-> step.ns, d |-> ToBool(step.d)]

\* The loop of build(): partial returns of depth 1..limit, cut at a terminal.
RECURSIVE Partials(_, _, _, _, _, _, _)
Partials(q, i, limit, reward, discount, g, acc) ==
  IF i > limit THEN acc
  ELSE LET step == q[i]
           rew == reward + Mul(discount, step.r)
           out == Append(acc, [reward |-> rew, nextState |-> step.ns, done |-> step.d])
       IN IF step.d THEN out
          ELSE Partials(q, i + 1, limit, rew, Mul(discount, g), g, out)

RECURSIVE LambdaSum(_, _, _)
LambdaSum(partials, i, lam) ==
  IF i > Len(partials) THEN 0
  ELSE LET weight == IF i = Len(partials)
                       THEN PowFix(lam, i - 1)
                       ELSE Mul(Unit - lam, PowFix(lam, i - 1))
       IN Mul(weight, partials[i].reward) + LambdaSum(partials, i + 1, lam)

\* How many queued steps build() folds.
FoldLimitOffByOne(nn, len) == Max(1, Min(nn, len) - 1)
FoldLimit(nn, len) == Min(nn, len)

\* The discount the first folded step is given.
DiscountGamma(g) == g
DiscountOne(g) == Unit

build(q, nn, g, lam) ==
  LET first == q[1]
      limit == FoldLimit(nn, Len(q))
      partials == Partials(q, 1, limit, 0, DiscountOne(g), g, << >>)
      last == partials[Len(partials)]
      lambdaReturn == IF Len(partials) = 0 THEN 0
                      ELSE IF lam >= LambdaPure THEN partials[Len(partials)].reward
                      ELSE LambdaSum(partials, 1, lam)
  IN [s |-> first.s, a |-> first.a, r |-> lambdaReturn, ns |-> last.nextState, d |-> last.done]

\* flush(): resolve every queued step, oldest first.
RECURSIVE flush(_, _, _, _)
flush(q, nn, g, lam) ==
  IF Len(q) = 0 THEN << >>
  ELSE <<build(q, nn, g, lam)>> \o flush(Tail(q), nn, g, lam)

\* The loop test of push: a full horizon of transitions is queued.
HorizonFullLate(q, nn) == Len(q) > nn

HorizonFull(q, nn) == Len(q) >= nn

\* The while loop of push() and what follows it.
RECURSIVE PushLoop(_, _, _, _, _, _)
PushLoop(q, ready, item, nn, g, lam) ==
  IF HorizonFull(q, nn)
    THEN LET b == build(q, nn, g, lam)
         IN IF b.d
              THEN [ready |-> Append(ready, b), queue |-> << >>]
              ELSE PushLoop(Tail(q), Append(ready, b), item, nn, g, lam)
    ELSE IF item.d
           THEN [ready |-> ready \o flush(q, nn, g, lam), queue |-> << >>]
           ELSE [ready |-> ready, queue |-> q]

pushResult(q, step, nn, g, lam) ==
  PushLoop(Append(q, Item(step)), << >>, Item(step), nn, g, lam)

\* new NStepAccumulator(n, gamma, lambda), the arguments drawn from ns, gs, lams
AccNew(ns, gs, lams) ==
  /\ \E nn \in ns : n = Max(1, ToInt32(nn))
  /\ gamma \in gs
  /\ \E lam \in lams : lambda = Max(0, Min(Unit, lam))
  /\ queue = << >>
  /\ stepCount = 0
  /\ reconfCount = 0
  /\ epPushed = << >>
  /\ epEmitted = << >>
  /\ epClean = TRUE
  /\ accOp = [name |-> "new", out |-> << >>, pre |-> << >>]

\* The raw transitions of the environment: step k leads from state k to k+1.
Steps(k) == {[s |-> k, a |-> k % 3, r |-> r, ns |-> k + 1, d |-> d] : r \in Rewards, d \in BOOLEAN}

EpisodeOver == Len(epPushed) > 0 /\ epPushed[Len(epPushed)].d

\* NStepAccumulator.push, as DQNAgent.recordTransition calls it.
AccPush ==
  /\ stepCount < MaxSteps
  /\ \E step \in Steps(stepCount) :
       LET res == pushResult(queue, step, n, gamma, lambda)
           fresh == EpisodeOver
       IN /\ queue' = res.queue
          /\ accOp' = [name |-> "push", out |-> res.ready, pre |-> Append(queue, Item(step))]
          /\ epPushed' = (IF fresh THEN << >> ELSE epPushed) \o <<Item(step)>>
          /\ epEmitted' = (IF fresh THEN << >> ELSE epEmitted) \o res.ready
          /\ epClean' = IF fresh THEN Len(queue) = 0 ELSE epClean
  /\ stepCount' = stepCount + 1
  /\ UNCHANGED <<n, gamma, lambda, reconfCount, exceptAcc>>

\* NStepAccumulator.flush, as DQNAgent.flushTransitions calls it.
AccFlush ==
  /\ queue' = << >>
  /\ accOp' = [name |-> "flush", out |-> flush(queue, n, gamma, lambda), pre |-> queue]
  /\ epClean' = (epClean /\ Len(queue) = 0)
  /\ UNCHANGED <<n, gamma, lambda, stepCount, reconfCount, epPushed, epEmitted, exceptAcc>>

\* NStepAccumulator.setConfig
setConfig(nn, g, lam) ==
  /\ n' = Max(1, ToInt32(nn))
  /\ gamma' = g
  /\ lambda' = Max(0, Min(Unit, lam))
  /\ queue' = << >>

\* DQNAgent.setGamma: the agent's gamma and nStep are the accumulator's.
SetGamma ==
  /\ reconfCount < MaxReconf
  /\ \E g \in Gammas : setConfig(n, g, lambda)
  /\ reconfCount' = reconfCount + 1
  /\ accOp' = [name |-> "setConfig", out |-> << >>, pre |-> queue]
  /\ epClean' = FALSE
  /\ UNCHANGED <<stepCount, epPushed, epEmitted, exceptAcc>>

\* DQNAgent.setNStep: returns early when the horizon does not change.
SetNStep ==
  /\ reconfCount < MaxReconf
  /\ \E value \in 0..MaxN :
       /\ Max(1, ToInt32(value)) # n
       /\ setConfig(Max(1, ToInt32(value)), gamma, lambda)
  /\ reconfCount' = reconfCount + 1
  /\ accOp' = [name |-> "setConfig", out |-> << >>, pre |-> queue]
  /\ epClean' = FALSE
  /\ UNCHANGED <<stepCount, epPushed, epEmitted, exceptAcc>>

\* ------------------------------------- checkpoint manager and disk guard
HEAVY_TASK_COOLDOWN_MS == 30000
StartTime == 2 * HEAVY_TASK_COOLDOWN_MS
CkptMB == 2
SaveCaps == {0, 5, 100}

\* Directory names under saveDir: a tag and, for the timestamped checkpoint
\* directories and the .tmp_<time>_<random> directories, the serial of the save.
Latest == <<"latest", 0>>
Best == <<"best", 0>>
LogsDir == <<"logs", 0>>
PtrTemp(name) == <<IF name = Latest THEN "latest_tmp" ELSE "best_tmp", 0>>
TempDir(k) == <<".tmp_", k>>
TargetDir(k) == <<"ckpt", k>>
Names ==
  {Latest, Best, LogsDir, PtrTemp(Latest), PtrTemp(Best)}
    \cup {TempDir(k) : k \in 1..MaxSaves} \cup {TargetDir(k) : k \in 1..MaxSaves}

\* A directory: whether it exists, the state of its checkpoint.json (none,
\* partial: created but not completely written, full), which save wrote the
\* file, and the modification time of the directory.
Absent == [present |-> FALSE, file |-> "none", id |-> 0, mtime |-> 0]
EmptyDir(t) == [present |-> TRUE, file |-> "none", id |-> 0, mtime |-> t]

\* ensureDir: mkdir -p leaves an existing directory alone.
ensureDir(f, nm, t) == IF f[nm].present THEN f ELSE [f EXCEPT ![nm] = EmptyDir(t)]
\* removeDir: rm -rf, absent is fine.
removeDir(f, nm) == [f EXCEPT ![nm] = Absent]
\* fs.rename of a directory onto a name that does not exist.
rename(f, from, to) == [f EXCEPT ![to] = f[from], ![from] = Absent]

FileMB(d) == IF ~d.present THEN 0 ELSE IF d.file = "full" THEN CkptMB ELSE IF d.file = "partial" THEN 1 ELSE 0

RECURSIVE SumMB(_, _)
SumMB(f, S) == IF S = {} THEN 0 ELSE LET x == CHOOSE y \in S : TRUE IN FileMB(f[x]) + SumMB(f, S \ {x})

\* directorySizeMB(saveDir)
directorySizeMB(f) == SumMB(f, Names)

\* The names _sortCheckpoints skips.
ProtectedWithoutBest == {"latest", "tmp"}
Protected == {"latest", "best", "tmp"}

RECURSIVE SortByMtime(_, _)
SortByMtime(f, S) ==
  IF S = {} THEN << >>
  ELSE LET m == CHOOSE x \in S : \A y \in S : f[x].mtime <= f[y].mtime
       IN <<m>> \o SortByMtime(f, S \ {m})

\* _sortCheckpoints: every subdirectory of saveDir but the skipped names,
\* oldest modification time first.
sortCheckpoints(f) ==
  SortByMtime(f, {nm \in Names : f[nm].present /\ nm[1] \notin Protected})

RECURSIVE RemoveAll(_, _, _)
RemoveAll(f, seq, k) == IF k <= 0 THEN f ELSE removeDir(RemoveAll(f, seq, k - 1), seq[k])

\* The size loop of pruneCheckpoints: walk the sorted list from the oldest
\* and remove until the directory fits the budget.
RECURSIVE BudgetLoop(_, _, _, _, _)
BudgetLoop(f, seq, i, cap, victims) ==
  IF i > Len(seq) \/ directorySizeMB(f) <= cap
    THEN [fs |-> f, victims |-> victims]
    ELSE BudgetLoop(removeDir(f, seq[i]), seq, i + 1, cap, victims \cup {seq[i]})

\* pruneCheckpoints once the rate limit has let it through.
pruneResult(f, retain, cap) ==
  LET checkpoints == sortCheckpoints(f)
      toRemove == Max(0, Len(checkpoints) - retain)
      f1 == RemoveAll(f, checkpoints, toRemove)
  IN BudgetLoop(f1, checkpoints, 1, cap, {checkpoints[i] : i \in 1..toRemove})

\* if (now - this._lastPrune < HEAVY_TASK_COOLDOWN_MS) return, and the same
\* test of rotateLogs on _lastLogPrune
RateLimitedNever(t, last) == FALSE
RateLimited(t, last) == t - last < HEAVY_TASK_COOLDOWN_MS

\* The timestamped checkpoint directories present in f, with their
\* modification times.
CheckpointTimes(f) ==
  [nm \in {TargetDir(k) : k \in {j \in 1..MaxSaves : f[TargetDir(j)].present}} |-> f[nm].mtime]

\* Whether the directory is above the budget once the retention step is done.
OverBudget(f, retain, cap) ==
  LET checkpoints == sortCheckpoints(f)
  IN directorySizeMB(RemoveAll(f, checkpoints, Max(0, Len(checkpoints) - retain))) > cap

NoPrune == [ran |-> FALSE, over |-> FALSE, pre |-> << >>]

pruneCheckpoints ==
  IF RateLimited(now, lastPrune)
    THEN /\ UNCHANGED <<fs, lastPrune, lastPruned>>
         /\ pruneOp' = NoPrune
    ELSE LET res == pruneResult(fs, retainCheckpoints, saveCapMB)
         IN /\ lastPrune' = now
            /\ fs' = res.fs
            /\ lastPruned' = res.victims
            /\ pruneOp' = [ran |-> TRUE,
                           over |-> OverBudget(fs, retainCheckpoints, saveCapMB),
                           pre |-> CheckpointTimes(fs)]

NoSave == [serial |-> 0, isBest |-> FALSE, ptr |-> Latest, best0 |-> Absent]

\* runTraining up to the first step: DiskGuard, TrainingLogger (saveDir/logs)
\* and CheckpointManager are constructed and initialised.
FsNew(retains, caps) ==
  /\ fs = [nm \in Names |-> IF nm = LogsDir THEN EmptyDir(StartTime) ELSE Absent]
  /\ pc = "idle"
  /\ cur = NoSave
  /\ saveSerial = 0
  /\ now = StartTime + 1
  /\ lastPrune = 0
  /\ retainCheckpoints \in retains
  /\ saveCapMB \in caps
  /\ savesDone = 0
  /\ crashCount = 0
  /\ tickCount = 0
  /\ lastPruned = {}
  /\ pruneOp = NoPrune
  /\ lastSave = NoSave

fsFrame == <<saveSerial, now, lastPrune, retainCheckpoints, saveCapMB,
             savesDone, crashCount, tickCount, lastPruned, pruneOp, lastSave, exceptFs>>

\* save(): withTempDir creates the temp directory.
SaveBegin ==
  /\ pc = "idle" /\ saveSerial < MaxSaves
  /\ \E isBest \in BOOLEAN : cur' = [serial |-> saveSerial + 1, isBest |-> isBest, ptr |-> Latest,
                                   best0 |-> fs[Best]]
  /\ saveSerial' = saveSerial + 1
  /\ fs' = ensureDir(fs, TempDir(saveSerial + 1), now)
  /\ pc' = "open"
  /\ UNCHANGED <<now, lastPrune, retainCheckpoints, saveCapMB,
                 savesDone, crashCount, tickCount, lastPruned, pruneOp, lastSave, exceptFs>>

\* writeJsonWithFsync: fs.open(filePath, 'w') creates an empty checkpoint.json.
SaveOpen ==
  /\ pc = "open"
  /\ fs' = [fs EXCEPT ![TempDir(cur.serial)] =
             [present |-> TRUE, file |-> "partial", id |-> cur.serial, mtime |-> now]]
  /\ pc' = "write"
  /\ UNCHANGED <<cur, fsFrame>>

\* writeJsonWithFsync: writeFile, sync, close; the write takes time.
SaveWrite ==
  /\ pc = "write"
  /\ fs' = [fs EXCEPT ![TempDir(cur.serial)].file = "full"]
  /\ now' = now + 1
  /\ pc' = "rename"
  /\ UNCHANGED <<cur, saveSerial, lastPrune, retainCheckpoints, saveCapMB,
                 savesDone, crashCount, tickCount, lastPruned, pruneOp, lastSave, exceptFs>>

\* fs.rename(tempDir, targetDir)
SaveRename ==
  /\ pc = "rename"
  /\ fs' = rename(fs, TempDir(cur.serial), TargetDir(cur.serial))
  /\ pc' = "cleanup"
  /\ UNCHANGED <<cur, fsFrame>>

\* withTempDir: finally removeDir(tempDir); then _updatePointer('latest') starts.
SaveCleanup ==
  /\ pc = "cleanup"
  /\ fs' = removeDir(fs, TempDir(cur.serial))
  /\ pc' = "ptr_rmtmp"
  /\ UNCHANGED <<cur, fsFrame>>

\* _updatePointer: removeDir(tempPointer)
PtrRemoveTemp ==
  /\ pc = "ptr_rmtmp"
  /\ fs' = removeDir(fs, PtrTemp(cur.ptr))
  /\ pc' = "ptr_mktmp"
  /\ UNCHANGED <<cur, fsFrame>>

\* _updatePointer: ensureDir(tempPointer)
PtrMakeTemp ==
  /\ pc = "ptr_mktmp"
  /\ fs' = ensureDir(fs, PtrTemp(cur.ptr), now)
  /\ pc' = "ptr_cpopen"
  /\ UNCHANGED <<cur, fsFrame>>

\* _updatePointer: fs.cp creates checkpoint.json in the temp pointer ...
PtrCopyOpen ==
  /\ pc = "ptr_cpopen"
  /\ fs' = [fs EXCEPT ![PtrTemp(cur.ptr)] =
             [present |-> TRUE, file |-> "partial", id |-> fs[TargetDir(cur.serial)].id, mtime |-> now]]
  /\ pc' = "ptr_cpwrite"
  /\ UNCHANGED <<cur, fsFrame>>

\* ... and fills it.
PtrCopyWrite ==
  /\ pc = "ptr_cpwrite"
  /\ fs' = [fs EXCEPT ![PtrTemp(cur.ptr)].file = fs[TargetDir(cur.serial)].file]
  /\ pc' = "ptr_rmfile"
  /\ UNCHANGED <<cur, fsFrame>>

\* _updatePointer: removeDir(pointerDir) unlinks the file of the old pointer ...
PtrRemoveFile ==
  /\ pc = "ptr_rmfile"
  /\ fs' = IF fs[cur.ptr].present
             THEN [fs EXCEPT ![cur.ptr].file = "none", ![cur.ptr].mtime = now]
             ELSE fs
  /\ pc' = "ptr_rmdir"
  /\ UNCHANGED <<cur, fsFrame>>

\* ... and then removes the directory.
PtrRemoveDir ==
  /\ pc = "ptr_rmdir"
  /\ fs' = removeDir(fs, cur.ptr)
  /\ pc' = "ptr_rename"
  /\ UNCHANGED <<cur, fsFrame>>

\* if (isBest) after the latest pointer has been updated
BestNextNever(c) == FALSE
BestNext(c) == c.ptr = Latest /\ c.isBest

\* _updatePointer: fs.rename(tempPointer, pointerDir); save() goes on to the
\* best pointer when isBest, else to pruneCheckpoints.
PtrRename ==
  /\ pc = "ptr_rename"
  /\ fs' = rename(fs, PtrTemp(cur.ptr), cur.ptr)
  /\ IF BestNext(cur)
       THEN cur' = [cur EXCEPT !.ptr = Best] /\ pc' = "ptr_rmtmp"
       ELSE cur' = cur /\ pc' = "prune"
  /\ UNCHANGED fsFrame

\* save(): diskGuard.pruneCheckpoints(), then the save has completed.
SavePrune ==
  /\ pc = "prune"
  /\ pruneCheckpoints
  /\ pc' = "idle"
  /\ cur' = NoSave
  /\ savesDone' = savesDone + 1
  /\ lastSave' = cur
  /\ UNCHANGED <<saveSerial, now, retainCheckpoints, saveCapMB, crashCount, tickCount, exceptFs>>

\* The process dies in the middle of a save and is started again: a new
\* DiskGuard, the directory as the dead process left it.
Crash ==
  /\ pc # "idle" /\ crashCount < MaxCrashes
  /\ pc' = "idle"
  /\ cur' = NoSave
  /\ lastPrune' = 0
  /\ now' = now + 1
  /\ crashCount' = crashCount + 1
  /\ UNCHANGED <<fs, saveSerial, retainCheckpoints, saveCapMB, savesDone, tickCount, lastPruned,
                 pruneOp, lastSave, exceptFs>>

\* Training goes on between two saves.
Tick ==
  /\ pc = "idle" /\ tickCount < MaxTicks
  /\ \E dt \in {HEAVY_TASK_COOLDOWN_MS \div 2, HEAVY_TASK_COOLDOWN_MS} : now' = now + dt
  /\ tickCount' = tickCount + 1
  /\ UNCHANGED <<fs, pc, cur, saveSerial, lastPrune, retainCheckpoints, saveCapMB,
                 savesDone, crashCount, lastPruned, pruneOp, lastSave, exceptFs>>

(***************************************************************************)
(* AutoScheduler: cooldown-gated hyperparameter rules.                     *)
(***************************************************************************)
EPS_END_MIN == 10000
EPS_END_MAX == 300000
DecayScale == 100
EPS_DECAY_MIN == 5000 * DecayScale
EPS_DECAY_MAX == 200000 * DecayScale
GAMMA_MIN == 9000
GAMMA_MAX == 9990
LR_MIN == 20000
LR_MAX == 50000
NSTEP_MIN == 1
NSTEP_MAX == 5
ADJUST_COOLDOWN_EPISODES == 500

\* Episode increments between two tuneHyperparams calls.
EpisodeSteps == {0, 1, ADJUST_COOLDOWN_EPISODES - 1, ADJUST_COOLDOWN_EPISODES}

\* The keys passed to _canAdjust.
Keys == {"epsilon-boost", "epsilon-regress", "epsilon-revert",
         "lr-decay", "lr-recover", "nstep-inc", "nstep-dec",
         "gamma-inc", "gamma-dec", "per-alpha-inc", "per-alpha-dec",
         "reward-loop", "reward-revisit", "reward-self", "reward-fruit"}

\* lastAdjustEpisode.get(key) ?? -Infinity: Never stands for the absent key.
Never == -1

clamp(value, lo, hi) == Min(Max(value, lo), hi)

\* What one call reads: the metrics summary, getFruitImprovement(2000),
\* tdMeanHistory as observe() left it, and the p95/p50 ratio of tdStats
\* (rates in 1/1000, ratios in 1/10 and 1/100).
Telemetry ==
  { \* stagnant, noisy, looping
    [fruitSlope |-> 0, improvement |-> 0, tdMeanHistory |-> <<1, 2, 3, 4>>,
     lossRatio |-> 90, timeToFruitAvg |-> 300, avgEpisodeLen100 |-> 120,
     crashRateSelf |-> 600, loopHitRate |-> 20, revisitRate |-> 20, tdRatio |-> 20],
    \* regressing
    [fruitSlope |-> -1, improvement |-> -6, tdMeanHistory |-> <<4, 3, 2, 1>>,
     lossRatio |-> 50, timeToFruitAvg |-> 210, avgEpisodeLen100 |-> 100,
     crashRateSelf |-> 450, loopHitRate |-> 0, revisitRate |-> 0, tdRatio |-> 14],
    \* improving
    [fruitSlope |-> 1, improvement |-> 3, tdMeanHistory |-> <<4, 3, 2, 1>>,
     lossRatio |-> 50, timeToFruitAvg |-> 100, avgEpisodeLen100 |-> 100,
     crashRateSelf |-> 0, loopHitRate |-> 0, revisitRate |-> 0, tdRatio |-> 10],
    \* nothing recorded yet
    [fruitSlope |-> 0, improvement |-> 2, tdMeanHistory |-> << >>,
     lossRatio |-> 0, timeToFruitAvg |-> 200, avgEpisodeLen100 |-> 100,
     crashRateSelf |-> 0, loopHitRate |-> 0, revisitRate |-> 0, tdRatio |-> 14] }

\* episode - last < ADJUST_COOLDOWN_EPISODES is false
CooledDownEarly(last, ep) == last = Never \/ ep - last >= ADJUST_COOLDOWN_EPISODES - 1
CooledDown(last, ep) == last = Never \/ ep - last >= ADJUST_COOLDOWN_EPISODES

\* _canAdjust(key, episode), reached only when the rule's other conditions
\* (pre) hold, because it is the last conjunct of every rule: the threaded
\* state with the key stamped and recorded as fired, or recorded as refused.
canAdjust(st, key, ep, pre) ==
  IF ~pre THEN st
  ELSE IF CooledDown(st.lastAdjustEpisode[key], ep)
       THEN [st EXCEPT !.lastAdjustEpisode[key] = ep, !.fired = @ \cup {key}]
       ELSE [st EXCEPT !.refused = @ \cup {key}]

\* cos(pi * cyclePos) = 1 - (pi * cyclePos)^2 / 2 over the first percent of
\* the 200000-episode cycle, which is where the bounded episodes lie:
\* base = LR_MAX - 0.5 * (LR_MAX - LR_MIN) * (pi * episode / 200000)^2 / 1.
CosineBase(ep) == LR_MAX - (ep * ep) \div 540380

applyCosineLR(st, ep) ==
  LET base == CosineBase(ep)
      lr == clamp((base * st.lrScale) \div Unit, LR_MIN, LR_MAX)
      diff == IF lr >= st.lr THEN lr - st.lr ELSE st.lr - lr
  IN IF diff * 100 > 5 * st.lr
     THEN [st EXCEPT !.lr = lr, !.adj = Append(@, "cosine")]
     ELSE st

\* Sequencing: the statements of a method act one after the other on the
\* objects, each on the state its predecessor left; Only({G(s) : s \in {F(st)}})
\* is G applied to the state F left.
Only(S) == CHOOSE x \in S : TRUE

epsilonBoost(st, m, ep) ==
  LET g == canAdjust(st, "epsilon-boost", ep, m.fruitSlope <= 0 /\ m.improvement < 2)
      newEnd == clamp(st.epsEnd + 30000, EPS_END_MIN, EPS_END_MAX)
      newDecay == clamp((st.epsDecay * 12) \div 10, EPS_DECAY_MIN, EPS_DECAY_MAX)
  IN IF "epsilon-boost" \in g.fired
     THEN [g EXCEPT !.epsEnd = newEnd, !.epsDecay = newDecay,
                    !.currentEpsEnd = newEnd, !.currentEpsDecay = newDecay,
                    !.adj = Append(@, "stagnation")]
     ELSE g

epsilonRegress(st, m, ep) ==
  LET g == canAdjust(st, "epsilon-regress", ep, m.improvement < -5)
      newEnd == clamp(st.epsEnd + 20000, EPS_END_MIN, EPS_END_MAX)
  IN IF "epsilon-regress" \in g.fired
     THEN [g EXCEPT !.epsEnd = newEnd, !.currentEpsEnd = newEnd,
                    !.lrScale = Max(2000, (@ * 9) \div 10),
                    !.adj = Append(@, "regression")]
     ELSE g

epsilonRevert(st, m, ep) ==
  LET g == canAdjust(st, "epsilon-revert", ep,
                     st.currentEpsEnd > sched.baseEpsEnd /\ m.improvement > 0 /\ m.fruitSlope > 0)
      stepBack == Max(10000, (st.currentEpsEnd - sched.baseEpsEnd) \div 2)
      newEnd == clamp(st.currentEpsEnd - stepBack, EPS_END_MIN, sched.baseEpsEnd)
      newDecay == clamp((st.currentEpsDecay * 9) \div 10, EPS_DECAY_MIN, sched.baseEpsDecay)
  IN IF "epsilon-revert" \in g.fired
     THEN [g EXCEPT !.epsEnd = newEnd, !.epsDecay = newDecay,
                    !.currentEpsEnd = newEnd, !.currentEpsDecay = newDecay,
                    !.adj = Append(@, "revert")]
     ELSE g

adjustEpsilon(st, m, ep) ==
  Only({epsilonRevert(s2, m, ep) :
          s2 \in {epsilonRegress(s1, m, ep) :
                    s1 \in {epsilonBoost(st, m, ep)}}})

lrRecover(st, m, ep) ==
  LET g == canAdjust(st, "lr-recover", ep, m.fruitSlope > 0 /\ st.lrScale < Unit)
  IN IF "lr-recover" \in g.fired
     THEN [g EXCEPT !.lrScale = Min(Unit, (@ * 105) \div 100),
                    !.lr = clamp((@ * 105) \div 100, LR_MIN, LR_MAX),
                    !.adj = Append(@, "recover")]
     ELSE g

adjustLR(st, m, ep) ==
  IF Len(m.tdMeanHistory) < 4 THEN st
  ELSE
    LET h == m.tdMeanHistory
        last == SubSeq(h, Len(h) - 2, Len(h))
        increasing == last[1] < last[2] /\ last[2] < last[3]
        g == canAdjust(st, "lr-decay", ep, increasing \/ m.lossRatio > 80)
    IN IF "lr-decay" \in g.fired
       THEN [g EXCEPT !.lrScale = Max(2000, (@ * 8) \div 10),
                      !.lr = clamp((@ * 8) \div 10, LR_MIN, LR_MAX),
                      !.adj = Append(@, "reduce_plateau"),
                      !.lastLRAdjustEpisode = ep]
       ELSE Only({lrRecover(s, m, ep) : s \in {g}})

\* agent.setNStep(value): setConfig on the accumulators unless unchanged
agentSetNStep(st, value) ==
  LET nn == Max(1, ToInt32(value))
  IN IF nn = st.nStep THEN st
     ELSE [st EXCEPT !.nStep = nn, !.reconfigured = TRUE]

\* agent.setGamma(value): always setConfig on the accumulators
agentSetGamma(st, value) == [st EXCEPT !.gamma = value, !.reconfigured = TRUE]

nStepDec(st, m, ep) ==
  LET g == canAdjust(st, "nstep-dec", ep, m.timeToFruitAvg < 120 /\ st.nStep > NSTEP_MIN)
  IN IF "nstep-dec" \in g.fired
     THEN [agentSetNStep(g, Max(NSTEP_MIN, st.nStep - 1)) EXCEPT !.adj = Append(@, "fast_fruit")]
     ELSE g

adjustNStep(st, m, ep) ==
  LET g == canAdjust(st, "nstep-inc", ep, m.timeToFruitAvg > 250 /\ st.nStep < NSTEP_MAX)
  IN IF "nstep-inc" \in g.fired
     THEN [agentSetNStep(g, Min(NSTEP_MAX, st.nStep + 1)) EXCEPT !.adj = Append(@, "slow_fruit")]
     ELSE Only({nStepDec(s, m, ep) : s \in {g}})

gammaInc(st, m, ep) ==
  LET lenIncrease == m.avgEpisodeLen100 * 10 > st.prevAvgLen * 11
      g == canAdjust(st, "gamma-inc", ep, lenIncrease /\ st.gamma < GAMMA_MAX)
  IN IF "gamma-inc" \in g.fired
     THEN [agentSetGamma(g, clamp(st.gamma + 50, GAMMA_MIN, GAMMA_MAX))
             EXCEPT !.adj = Append(@, "longer_episodes")]
     ELSE g

gammaDec(st, m, ep) ==
  LET g == canAdjust(st, "gamma-dec", ep, m.crashRateSelf > 500 /\ st.gamma > sched.baseGamma)
  IN IF "gamma-dec" \in g.fired
     THEN [agentSetGamma(g, clamp(st.gamma - 50, GAMMA_MIN, GAMMA_MAX))
             EXCEPT !.adj = Append(@, "self_crash")]
     ELSE g

adjustGamma(st, m, ep) ==
  LET s0 == IF st.prevAvgLen = 0 THEN [st EXCEPT !.prevAvgLen = m.avgEpisodeLen100] ELSE st
  IN Only({[s2 EXCEPT !.prevAvgLen = m.avgEpisodeLen100] :
             s2 \in {gammaDec(s1, m, ep) :
                       s1 \in {gammaInc(s, m, ep) : s \in {s0}}}})

\* agent.setPriorityAlpha / setPriorityBeta: the agent's field and the buffer's
agentSetPriorityAlpha(st, a) == [st EXCEPT !.priorityAlpha = a, !.bufAlpha = setAlpha(a)]
agentSetPriorityBeta(st, b) == [st EXCEPT !.priorityBeta = b, !.bufBeta = setBeta(b)]

annealBeta(st) ==
  LET b == clamp(st.priorityBeta + 500, st.priorityBeta, Micro)
  IN IF b # st.priorityBeta
     THEN [agentSetPriorityBeta(st, b) EXCEPT !.adj = Append(@, "anneal_beta")]
     ELSE st

alphaDec(st, m, ep) ==
  LET g == canAdjust(st, "per-alpha-dec", ep, m.tdRatio < 12)
  IN IF "per-alpha-dec" \in g.fired
     THEN [agentSetPriorityAlpha(g, clamp(st.priorityAlpha - 50000, Micro \div 10, Micro))
             EXCEPT !.adj = Append(@, "light_tail")]
     ELSE g

alphaInc(st, m, ep) ==
  LET g == canAdjust(st, "per-alpha-inc", ep, m.tdRatio > 16)
  IN IF "per-alpha-inc" \in g.fired
     THEN [agentSetPriorityAlpha(g, clamp(st.priorityAlpha + 50000, Micro \div 10, Micro))
             EXCEPT !.adj = Append(@, "heavy_tail")]
     ELSE Only({alphaDec(s, m, ep) : s \in {g}})

annealPER(st, m, ep) ==
  Only({alphaInc(s, m, ep) : s \in {annealBeta(st)}})

rewardLoop(st, m, ep) ==
  LET g == canAdjust(st, "reward-loop", ep, m.loopHitRate > 10 /\ m.fruitSlope <= 0)
  IN IF "reward-loop" \in g.fired
     THEN [g EXCEPT !.rc.loopPenalty = clamp(@ + 500, 0, Unit),
                    !.rc.compactWeight = 0,
                    !.adj = Append(@, "loopPenalty")]
     ELSE g

rewardRevisit(st, m, ep) ==
  LET g == canAdjust(st, "reward-revisit", ep, m.revisitRate > 10)
  IN IF "reward-revisit" \in g.fired
     THEN [g EXCEPT !.rc.revisitPenalty = clamp(@ + 50, 0, 1000),
                    !.epsEnd = clamp(@ + 20000, EPS_END_MIN, EPS_END_MAX),
                    !.adj = Append(@, "revisitPenalty")]
     ELSE g

rewardSelf(st, m, ep) ==
  LET g == canAdjust(st, "reward-self", ep, m.crashRateSelf > 400)
  IN IF "reward-self" \in g.fired
     THEN [g EXCEPT !.rc.selfPenalty = clamp(@ + Unit, 0, 30 * Unit),
                    !.rc.turnPenalty = clamp(@ - 2, 0, 200),
                    !.adj = Append(@, "selfPenalty")]
     ELSE g

rewardFruit(st, m, ep) ==
  LET g == canAdjust(st, "reward-fruit", ep,
                     m.timeToFruitAvg > 200 /\ m.loopHitRate < 5 /\ m.revisitRate < 5)
  IN IF "reward-fruit" \in g.fired
     THEN [g EXCEPT !.rc.approachBonus = clamp(@ + 50, 0, 1000),
                    !.rc.retreatPenalty = clamp(@ + 50, 0, 1000),
                    !.adj = Append(@, "approachBonus")]
     ELSE g

adjustRewards(st, m, ep) ==
  Only({rewardFruit(s3, m, ep) :
          s3 \in {rewardSelf(s2, m, ep) :
                    s2 \in {rewardRevisit(s1, m, ep) :
                              s1 \in {rewardLoop(st, m, ep)}}}})

\* new AutoScheduler({initialConfig, rewardConfig}) beside the agent built
\* from the same configuration, before the first episode.
SchedNewOpts(epsEnds) ==
  /\ \E end \in epsEnds :
       /\ agent = [lr |-> LR_MAX, epsEnd |-> end, epsDecay |-> 80000 * DecayScale,
                   priorityAlpha |-> PriorityAlphaDefault, priorityBeta |-> PriorityBetaDefault]
       /\ sched = [baseEpsEnd |-> end, baseEpsDecay |-> 80000 * DecayScale,
              baseGamma |-> 9800, currentEpsEnd |-> end,
              currentEpsDecay |-> 80000 * DecayScale, lrScale |-> Unit,
              lastLRAdjustEpisode |-> 0, prevAvgLen |-> 0,
              lastAdjustEpisode |-> [k \in Keys |-> Never]]
  /\ rewardConfig = [loopPenalty |-> 5000, compactWeight |-> 0, revisitPenalty |-> 500,
                     selfPenalty |-> 255000, turnPenalty |-> 10,
                     approachBonus |-> 300, retreatPenalty |-> 300]
  /\ episode = 0
  /\ adjustments = << >>
  /\ callCount = 0
  /\ fires = [k \in Keys |-> << >>]
  /\ blocked = {}

\* epsilon.end ?? 0.12
EpsEndDefault == 120000

SchedNew == SchedNewOpts({EpsEndDefault})

\* The state the rules thread through one call.
Threaded ==
  [lr |-> agent.lr, epsEnd |-> agent.epsEnd, epsDecay |-> agent.epsDecay,
   priorityAlpha |-> agent.priorityAlpha, priorityBeta |-> agent.priorityBeta,
   nStep |-> n, gamma |-> gamma, bufAlpha |-> alpha, bufBeta |-> beta,
   reconfigured |-> FALSE,
   lrScale |-> sched.lrScale, currentEpsEnd |-> sched.currentEpsEnd,
   currentEpsDecay |-> sched.currentEpsDecay,
   lastLRAdjustEpisode |-> sched.lastLRAdjustEpisode,
   prevAvgLen |-> sched.prevAvgLen, lastAdjustEpisode |-> sched.lastAdjustEpisode,
   rc |-> rewardConfig, adj |-> << >>, fired |-> {}, refused |-> {}]

tuneResult(m, ep) ==
  Only({adjustRewards(s6, m, ep) :
    s6 \in {annealPER(s5, m, ep) :
    s5 \in {adjustGamma(s4, m, ep) :
    s4 \in {adjustNStep(s3, m, ep) :
    s3 \in {adjustLR(s2, m, ep) :
    s2 \in {adjustEpsilon(s1, m, ep) :
    s1 \in {applyCosineLR(s0, ep) : s0 \in {Threaded}}}}}}}})

\* scheduler.tuneHyperparams(agent, rewardConfig, metrics, tdStats, episode)
\* at the next episode number the training loop passes.
TuneHyperparams ==
  /\ callCount < MaxCalls
  /\ \E d \in EpisodeSteps, m \in Telemetry :
     \E ep \in {episode + d} :
     \E r \in {tuneResult(m, ep)} :
          /\ episode' = ep
          /\ agent' = [lr |-> r.lr, epsEnd |-> r.epsEnd, epsDecay |-> r.epsDecay,
                       priorityAlpha |-> r.priorityAlpha, priorityBeta |-> r.priorityBeta]
          /\ sched' = [sched EXCEPT !.lrScale = r.lrScale,
                                    !.currentEpsEnd = r.currentEpsEnd,
                                    !.currentEpsDecay = r.currentEpsDecay,
                                    !.lastLRAdjustEpisode = r.lastLRAdjustEpisode,
                                    !.prevAvgLen = r.prevAvgLen,
                                    !.lastAdjustEpisode = r.lastAdjustEpisode]
          /\ rewardConfig' = r.rc
          /\ adjustments' = r.adj
          /\ alpha' = r.bufAlpha
          /\ beta' = r.bufBeta
          /\ IF r.reconfigured
             THEN /\ setConfig(r.nStep, r.gamma, lambda)
                  /\ reconfCount' = reconfCount + 1
                  /\ accOp' = [name |-> "setConfig", out |-> << >>, pre |-> queue]
                  /\ epClean' = FALSE
             ELSE UNCHANGED <<n, gamma, lambda, queue, reconfCount, epClean, accOp>>
          /\ fires' = [k \in Keys |-> IF k \in r.fired THEN Append(fires[k], ep) ELSE fires[k]]
          /\ blocked' = blocked \cup r.refused
  /\ callCount' = callCount + 1
  /\ UNCHANGED <<capacity, buffer, position, priorities, maxPriority, priorityEps,
                 betaIncrement, pushCount, onlyPushes, bufOp,
                 opCount, bufPre, sampled, learnerUpdates>>
  /\ UNCHANGED <<stepCount, epPushed, epEmitted>>
  /\ UNCHANGED <<fsVars, evalVars, boardVars, guardVars, restVars>>

\* scheduler._annealPER(agent, tdStats, episode) on its own, for the episode
\* after the last one: the beta step and the two alpha rules.
AnnealPER ==
  /\ callCount < MaxCalls
  /\ \E m \in Telemetry :
     \E ep \in {episode + 1} :
     \E r \in {annealPER(Threaded, m, ep)} :
          /\ episode' = ep
          /\ agent' = [agent EXCEPT !.priorityAlpha = r.priorityAlpha,
                                    !.priorityBeta = r.priorityBeta]
          /\ sched' = [sched EXCEPT !.lastAdjustEpisode = r.lastAdjustEpisode]
          /\ adjustments' = r.adj
          /\ alpha' = r.bufAlpha
          /\ beta' = r.bufBeta
          /\ fires' = [k \in Keys |-> IF k \in r.fired THEN Append(fires[k], ep) ELSE fires[k]]
          /\ blocked' = blocked \cup r.refused
  /\ callCount' = callCount + 1
  /\ UNCHANGED <<capacity, buffer, position, priorities, maxPriority, priorityEps,
                 betaIncrement, pushCount, onlyPushes, bufOp,
                 opCount, bufPre, sampled, learnerUpdates>>
  /\ UNCHANGED <<rewardConfig, accVars, fsVars, evalVars, boardVars, guardVars, restVars>>

(***************************************************************************)
(* Evaluation, best score and rollback in the training loop.               *)
(***************************************************************************)
EVAL_INTERVAL_EPISODES == 2000
ROLLBACK_WINDOW_EPISODES == 5000

\* Episodes are followed in blocks: the evaluation interval and the rollback
\* window are multiples of the block, so every evaluation falls on the last
\* episode of a block, as it does episode by episode.
EpisodeBlock == 1000

\* Average fruits of an evaluation run, and values of maFruit100.
FruitScores == {10, 11, 20}
MaValues == {5, 20}

\* this.bestEval = null
NoBest == [isNull |-> TRUE]

\* new AutoScheduler: evaluation fields, before the first episode
EvalNew ==
  /\ totalEpisodes = 0
  /\ maFruit100 = 0
  /\ bestEval = NoBest
  /\ bestEvalEpisode = 0
  /\ lastEvalEpisode = 0
  /\ blockCount = 0
  /\ maHistory = << >>
  /\ evalOp = [name |-> "new"]
  /\ rollbacks = 0

\* scheduler.maybeEval(episode)
maybeEval(ep) == ep - lastEvalEpisode >= EVAL_INTERVAL_EPISODES

\* scheduler.updateBestEval(episode, fruits, meta): TRUE when it records
improves(best, fruits) ==
  \/ best.isNull
  \/ fruits >= best.fruits + 5
  \/ fruits * 100 >= best.fruits * 102

\* scheduler.needsRollback(metrics, episode) for the best record given
needsRollback(best, bestEpisode, ma, ep) ==
  IF best.isNull THEN FALSE
  ELSE IF ep - bestEpisode < ROLLBACK_WINDOW_EPISODES THEN FALSE
  ELSE ma * 100 < best.fruits * 75

\* The episodes of one block finish; on the last one the loop evaluates when
\* maybeEval says so: registerEval, runEvaluation, updateBestEval, then the
\* rollback to best/ when needsRollback says so.  The checkpoint written for a
\* new best and the reload itself act on the save directory and the agent.
FinishBlock ==
  /\ blockCount < MaxBlocks
  /\ blockCount' = blockCount + 1
  /\ \E ep \in {totalEpisodes + EpisodeBlock}, ma \in MaValues :
       /\ totalEpisodes' = ep
       /\ maFruit100' = ma
       /\ maHistory' = Append(maHistory, ma)
       /\ IF maybeEval(ep)
            THEN \E fruits \in FruitScores :
                   \E improved \in {improves(bestEval, fruits)} :
                   \E best \in {IF improved
                                  THEN [isNull |-> FALSE, episode |-> ep, fruits |-> fruits]
                                  ELSE bestEval} :
                   \E bestEpisode \in {IF improved THEN ep ELSE bestEvalEpisode} :
                   \E rollback \in {needsRollback(best, bestEpisode, ma, ep)} :
                     /\ lastEvalEpisode' = ep
                     /\ bestEval' = best
                     /\ bestEvalEpisode' = bestEpisode
                     /\ rollbacks' = IF rollback THEN rollbacks + 1 ELSE rollbacks
                     /\ evalOp' = [name |-> "eval", episode |-> ep, fruits |-> fruits,
                                   pre |-> bestEval, improved |-> improved,
                                   rollback |-> rollback]
            ELSE /\ evalOp' = [name |-> "episodes"]
                 /\ UNCHANGED <<lastEvalEpisode, bestEval, bestEvalEpisode, rollbacks>>
  /\ UNCHANGED exceptEval

(***************************************************************************)
(* Curriculum: board stages in the training loop.                          *)
(***************************************************************************)
MaxEpisodes == 4

\* this.boardStages
BoardStages ==
  <<[size |-> 10, threshold |-> 0], [size |-> 14, threshold |-> 60],
    [size |-> 18, threshold |-> 120], [size |-> 20, threshold |-> 200]>>

\* Values of summary.maFruit500 when an episode finishes.
MaFruitValues == {60, 61, 121, 200, 201}

\* new AutoScheduler (boardIndex, lastBoardChangeEpisode) and the initial
\* board of auto mode
BoardNew ==
  /\ boardIndex = 0
  /\ lastBoardChangeEpisode = 0
  /\ boardSize = BoardStages[1].size
  /\ maFruit500 = 0

\* summary.maFruit500 > nextStage.threshold
AdvancesAtThreshold(ma, threshold) == ma >= threshold
Advances(ma, threshold) == ma > threshold

\* scheduler.maybeAdvanceBoard(episode): the index it leaves and the size it
\* returns, 0 standing for null.
maybeAdvanceBoard(idx, ma) ==
  IF idx + 1 >= Len(BoardStages) THEN [index |-> idx, size |-> 0]
  ELSE IF Advances(ma, BoardStages[idx + 2].threshold)
       THEN [index |-> idx + 1, size |-> BoardStages[idx + 2].size]
       ELSE [index |-> idx, size |-> 0]

\* An episode finishes in auto mode: the episode counter, the curriculum
\* check and, on a new board, agent.pruneReplay(0.5).  The tuning, evaluation
\* and checkpoint parts of the same loop body act on the scheduler, the
\* evaluation fields and the save directory.
FinishEpisode ==
  /\ totalEpisodes < MaxEpisodes
  /\ totalEpisodes' = totalEpisodes + 1
  /\ \E ma \in MaFruitValues :
     \E res \in {maybeAdvanceBoard(boardIndex, ma)} :
       /\ maFruit500' = ma
       /\ boardIndex' = res.index
       /\ IF res.size # 0
            THEN /\ lastBoardChangeEpisode' = totalEpisodes + 1
                 /\ boardSize' = res.size
                 /\ dropOldest(FracDen \div 2)
                 /\ bufOp' = [name |-> "dropOldest", pre |-> buffer, arg |-> FracDen \div 2]
                 /\ onlyPushes' = FALSE
                 /\ bufPre' = Snapshot
                 /\ UNCHANGED <<pushCount, opCount, sampled, learnerUpdates>>
            ELSE UNCHANGED <<lastBoardChangeEpisode, boardSize, bufVars>>
  /\ UNCHANGED <<maFruit100, bestEval, bestEvalEpisode, lastEvalEpisode,
                 blockCount, maHistory, evalOp, rollbacks>>
  /\ UNCHANGED <<accVars, fsVars, schedVars, guardVars, restVars>>

(***************************************************************************)
(* DiskGuard.rotateLogs and the TrainingLogger.                            *)
(***************************************************************************)
MaxAppends == 11
MaxGuardCalls == 4

\* LOG_ROTATE_BYTES, in MB like every file size of the log directories
LOG_ROTATE_MB == 10

\* The two log directories: saveDir/../logs, the DiskGuard's default, and
\* saveDir/logs, where the TrainingLogger writes.
ParentLogs == "parent"
SaveLogs == "save"

\* Size of what one log call appends, large against a real entry so that few
\* appends reach the rotation threshold; the time since the previous call.
EntryMB == {4, 10}
LogGaps == {HEAVY_TASK_COOLDOWN_MS \div 2, HEAVY_TASK_COOLDOWN_MS}

\* A log directory: the size of training_log.jsonl (-1: no such file) and the
\* archives training_log_<idx>.jsonl.gz as pairs <<idx, size>>.
EmptyLogDir == [live |-> -1, archives |-> {}]

\* new DiskGuard({..., logDir, retainLogs, logCapMB}) and new TrainingLogger
GuardNew(dirs, retains, caps) ==
  /\ guardLogDir \in dirs
  /\ logs = [d \in {ParentLogs, SaveLogs} |-> EmptyLogDir]
  /\ lastLogPrune = 0
  /\ retainLogs \in retains
  /\ logCapMB \in caps
  /\ running = [c \in 1..2 |-> [pc |-> "idle", list |-> << >>]]
  /\ appendCount = 0
  /\ guardCalls = 0
  /\ guardOp = [name |-> "new"]

\* The decimal digits of the archive number, as they stand in the file name.
RECURSIVE Digits(_)
Digits(i) == IF i < 10 THEN <<i>> ELSE Digits(i \div 10) \o <<i % 10>>

\* String order of two digit strings each followed by ".jsonl.gz": the dot
\* sorts before every digit.
RECURSIVE LexLess(_, _)
LexLess(a, b) ==
  IF a = << >> THEN b # << >>
  ELSE IF b = << >> THEN FALSE
  ELSE IF Head(a) # Head(b) THEN Head(a) < Head(b)
  ELSE LexLess(Tail(a), Tail(b))

\* names.sort() and sort((a, b) => a.name.localeCompare(b.name)) on the
\* archive names, given by their numbers
RECURSIVE SortNames(_)
SortNames(S) ==
  IF S = {} THEN << >>
  ELSE LET m == CHOOSE x \in S : \A y \in S \ {x} : LexLess(Digits(x), Digits(y))
       IN <<m>> \o SortNames(S \ {m})

\* zlib.createGzip(): the archive is smaller than the log it was made from.
GzipMB(mb) == Max(1, mb \div 5)

Indices(archives) == {a[1] : a \in archives}

RECURSIVE ArchivesMB(_)
ArchivesMB(archives) ==
  IF archives = {} THEN 0
  ELSE LET a == CHOOSE x \in archives : TRUE IN a[2] + ArchivesMB(archives \ {a})

\* directorySizeMB(this.logDir)
logDirSizeMB(d) == Max(0, d.live) + ArchivesMB(d.archives)

\* parseInt of the number in the name that sorts last, plus one
nextIndex(archives) ==
  LET gzipped == SortNames(Indices(archives))
  IN IF Len(gzipped) = 0 THEN 1 ELSE gzipped[Len(gzipped)] + 1

\* gzip the live log into the target archive (createWriteStream truncates an
\* existing file), safeUnlink and rewrite the live log empty.
compress(d) ==
  LET idx == nextIndex(d.archives)
  IN [live |-> 0,
      archives |-> {a \in d.archives : a[1] # idx} \cup {<<idx, GzipMB(d.live)>>}]

\* gzFiles.slice(0, gzFiles.length - this.retainLogs) unlinked
retainArchives(d, retain) ==
  LET gzFiles == SortNames(Indices(d.archives))
      victims == {gzFiles[i] : i \in 1..Max(0, Len(gzFiles) - retain)}
  IN [d EXCEPT !.archives = {a \in @ : a[1] \notin victims}]

\* The size loop of rotateLogs over the remaining archives in name order.
RECURSIVE LogBudgetLoop(_, _, _, _)
LogBudgetLoop(d, gzSorted, i, cap) ==
  IF i > Len(gzSorted) \/ logDirSizeMB(d) <= cap THEN d
  ELSE LogBudgetLoop([d EXCEPT !.archives = {a \in @ : a[1] # gzSorted[i]}],
                     gzSorted, i + 1, cap)

\* rotateLogs('training_log.jsonl') from the size test on, for a log
\* directory d that holds a live file: the directory it leaves, the number
\* of the archive it wrote (0: none) and whether the size loop had to run.
rotate(d, retain, cap) ==
  IF d.live < LOG_ROTATE_MB THEN [dir |-> d, created |-> 0, over |-> FALSE]
  ELSE Only({[dir |-> IF logDirSizeMB(d2) <= cap THEN d2
                      ELSE LogBudgetLoop(d2, SortNames(Indices(d2.archives)), 1, cap),
              created |-> nextIndex(d.archives),
              over |-> logDirSizeMB(d2) > cap] :
               d2 \in {retainArchives(d1, retain) : d1 \in {compress(d)}}})

\* rotateLogs at time t on the directory d of the DiskGuard (exists: whether
\* the directory is there), with the timestamp it leaves.
rotateLogs(d, exists, t, last, retain, cap) ==
  IF RateLimited(t, last)
    THEN [dir |-> d, last |-> last, created |-> 0, over |-> FALSE]
  ELSE IF ~exists \/ d.live = -1
    THEN [dir |-> d, last |-> t, created |-> 0, over |-> FALSE]
  ELSE [last |-> t] @@ rotate(d, retain, cap)

\* fs.appendFile(this.logFile, entry) creates the file when it is missing.
appendFile(d, mb) == [d EXCEPT !.live = Max(0, @) + mb]

\* TrainingLogger.maybeLogJson once the episode interval has passed, and
\* logEval: append to saveDir/logs/training_log.jsonl, then
\* diskGuard.rotateLogs('training_log.jsonl').  With saveDir/logs missing the
\* append rejects with ENOENT and the call ends there.
logAppend ==
  /\ fs[LogsDir].present
  /\ appendCount' = appendCount + 1
  /\ \E dt \in LogGaps, mb \in EntryMB :
     \E t \in {now + dt} :
     \E appended \in {[logs EXCEPT ![SaveLogs] = appendFile(@, mb)]} :
     \E r \in {rotateLogs(appended[guardLogDir],
                          guardLogDir = ParentLogs \/ fs[LogsDir].present,
                          t, lastLogPrune, retainLogs, logCapMB)} :
       /\ now' = t
       /\ logs' = [appended EXCEPT ![guardLogDir] = r.dir]
       /\ lastLogPrune' = r.last
       /\ fs' = IF logs[SaveLogs].live = -1
                   \/ (guardLogDir = SaveLogs /\ r.dir # appended[SaveLogs])
                  THEN [fs EXCEPT ![LogsDir].mtime = t]
                  ELSE fs
       /\ guardOp' = [name |-> "rotate", at |-> t, preLast |-> lastLogPrune,
                      mid |-> appended[guardLogDir],
                      created |-> r.created, over |-> r.over]
  /\ UNCHANGED <<guardLogDir, retainLogs, logCapMB, running, guardCalls>>
  /\ UNCHANGED <<pc, cur, saveSerial, lastPrune, retainCheckpoints, saveCapMB,
                 savesDone, crashCount, tickCount, lastPruned, pruneOp, lastSave>>
  /\ UNCHANGED <<bufVars, accVars, schedVars, evalVars, boardVars, restVars>>

\* The logger's calls of a long run.
LogAppend == appendCount < MaxAppends /\ logAppend

\* The logger's calls among the DiskGuard calls of a short run.
GuardLogAppend == appendCount + guardCalls < MaxGuardCalls /\ logAppend

\* diskGuard.pruneCheckpoints() between two saves; a removed saveDir/logs
\* takes its files with it.
PruneCall ==
  /\ pc = "idle" /\ appendCount + guardCalls < MaxGuardCalls
  /\ guardCalls' = guardCalls + 1
  /\ pruneCheckpoints
  /\ logs' = IF fs'[LogsDir].present THEN logs ELSE [logs EXCEPT ![SaveLogs] = EmptyLogDir]
  /\ guardOp' = [name |-> "prune", at |-> now, preLast |-> lastPrune, mid |-> fs]
  /\ UNCHANGED <<guardLogDir, lastLogPrune, retainLogs, logCapMB, running, appendCount>>
  /\ UNCHANGED <<pc, cur, saveSerial, now, retainCheckpoints, saveCapMB,
                 savesDone, crashCount, tickCount, lastSave>>
  /\ UNCHANGED <<bufVars, accVars, schedVars, evalVars, boardVars, restVars>>

\* Two callers that do not await each other: a call passes the rate limit
\* and stamps the time, or returns at once ...
PruneEnter(c) ==
  /\ running[c].pc = "idle" /\ guardCalls < MaxGuardCalls
  /\ guardCalls' = guardCalls + 1
  /\ IF RateLimited(now, lastPrune)
       THEN UNCHANGED <<lastPrune, running>>
       ELSE /\ lastPrune' = now
            /\ running' = [running EXCEPT ![c].pc = "list"]
  /\ UNCHANGED <<guardLogDir, logs, lastLogPrune, retainLogs, logCapMB, appendCount, guardOp>>
  /\ UNCHANGED <<fs, pc, cur, saveSerial, now, retainCheckpoints, saveCapMB,
                 savesDone, crashCount, tickCount, lastPruned, pruneOp, lastSave>>
  /\ UNCHANGED <<bufVars, accVars, schedVars, evalVars, boardVars, restVars>>

\* ... awaits _sortCheckpoints ...
PruneList(c) ==
  /\ running[c].pc = "list"
  /\ running' = [running EXCEPT ![c] = [pc |-> "remove", list |-> sortCheckpoints(fs)]]
  /\ UNCHANGED <<guardLogDir, logs, lastLogPrune, retainLogs, logCapMB,
                 appendCount, guardCalls, guardOp>>
  /\ UNCHANGED <<fsVars, bufVars, accVars, schedVars, evalVars, boardVars, restVars>>

\* ... and removes what exceeds the retention count and the size budget.
PruneRemove(c) ==
  /\ running[c].pc = "remove"
  /\ \E checkpoints \in {running[c].list} :
     \E toRemove \in {Max(0, Len(checkpoints) - retainCheckpoints)} :
     \E res \in {BudgetLoop(RemoveAll(fs, checkpoints, toRemove), checkpoints, 1, saveCapMB,
                            {checkpoints[i] : i \in 1..toRemove})} :
       /\ fs' = res.fs
       /\ lastPruned' = res.victims
  /\ running' = [running EXCEPT ![c] = [pc |-> "idle", list |-> << >>]]
  /\ UNCHANGED <<guardLogDir, logs, lastLogPrune, retainLogs, logCapMB,
                 appendCount, guardCalls, guardOp>>
  /\ UNCHANGED <<pc, cur, saveSerial, now, lastPrune, retainCheckpoints, saveCapMB,
                 savesDone, crashCount, tickCount, pruneOp, lastSave>>
  /\ UNCHANGED <<bufVars, accVars, schedVars, evalVars, boardVars, restVars>>

(***************************************************************************)
(* MetricsCollector: the rolling windows of episode records.               *)
(***************************************************************************)
MaxRecords == 502

WINDOW100 == 100
WINDOW500 == 500
MA_HISTORY == 200

\* new RingBuffer(capacity): -1 stands for a slot never written
RingNew(cap) == [capacity |-> cap, values |-> [i \in 1..cap |-> -1], index |-> 0, length |-> 0]

\* RingBuffer.push
ringPush(ring, value) ==
  [ring EXCEPT !.values[ring.index + 1] = value,
               !.index = (ring.index + 1) % ring.capacity,
               !.length = IF ring.length < ring.capacity THEN ring.length + 1 ELSE ring.length]

\* new MetricsCollector()
MetricsNew ==
  /\ episodes = 0
  /\ metricsSteps = 0
  /\ window100 = << >>
  /\ window500 = << >>
  /\ maFruitHistory = RingNew(MA_HISTORY)


\* list.reduce((sum, item) => sum + item.fruits, 0)
RECURSIVE sum(_)
sum(list) == IF Len(list) = 0 THEN 0 ELSE list[1].fruits + sum(Tail(list))

\* MetricsCollector.average(list, 'fruits'), in 1/Unit
average(list) == IF Len(list) = 0 THEN 0 ELSE (sum(list) * Unit) \div Len(list)

\* Array.push followed by shift() when the window is over its limit; the
\* window of the last 100 shifts at the limit of the last 500 in the variant.
pushWindowLong(list, data, limit) ==
  IF Len(list) + 1 > WINDOW500 THEN Tail(Append(list, data)) ELSE Append(list, data)

pushWindow(list, data, limit) ==
  IF Len(list) + 1 > limit THEN Tail(Append(list, data)) ELSE Append(list, data)

\* The episodes whose record varies in the runs explored.
VariedEpisodes == {1, 2, WINDOW100, WINDOW100 + 1, WINDOW500, WINDOW500 + 1}

\* The records of episode k as toEpisodeRecord builds them (fruits, length).
Records(k) ==
  {[episode |-> k, fruits |-> f, length |-> 10 + f] :
     f \in IF k \in VariedEpisodes THEN {0, 3} ELSE {1}}

\* MetricsCollector.recordEpisode
recordEpisode(data) ==
  /\ episodes' = episodes + 1
  /\ metricsSteps' = metricsSteps + data.length
  /\ window500' = pushWindow(window500, data, WINDOW500)
  /\ \E w100 \in {pushWindow(window100, data, WINDOW100)} :
       /\ window100' = w100
       /\ maFruitHistory' = ringPush(maFruitHistory, average(w100))

RecordEpisode ==
  /\ episodes < MaxRecords
  /\ \E data \in Records(episodes + 1) : recordEpisode(data)
  /\ UNCHANGED <<bufVars, accVars, fsVars, schedVars, evalVars, boardVars, guardVars, loopVars, envVars>>

(***************************************************************************)
(* The replay buffer under all of its mutating calls.                      *)
(***************************************************************************)
MaxSlotOps == 1

\* Bookkeeping of a call in the runs that mix every operation.
SlotCalled(name, arg) ==
  /\ opCount < MaxSlotOps
  /\ opCount' = opCount + 1
  /\ bufOp' = [name |-> name, pre |-> buffer, arg |-> arg]
  /\ bufPre' = Snapshot
  /\ onlyPushes' = FALSE
  /\ UNCHANGED <<pushCount, exceptBuf>>

SlotSetCapacity ==
  \E cap \in 0..MaxCap :
    /\ setCapacity(cap)
    /\ SlotCalled("setCapacity", cap)
    /\ UNCHANGED <<priorityEps, alpha, beta, betaIncrement, sampled, learnerUpdates>>

SlotSample ==
  \E batchSize \in BatchSizes :
    \E indices \in (IF Len(buffer) = 0 THEN {<< >>} ELSE Draws(batchSize)) :
      /\ sample(batchSize, indices)
      /\ SlotCalled("sample", batchSize)
      /\ UNCHANGED <<capacity, buffer, position, priorities, maxPriority, priorityEps,
                     alpha, betaIncrement, learnerUpdates>>

\* updatePriorities with an index of the last batch, or one past the array
SlotUpdatePriorities ==
  \E idx \in 0..capacity, e \in {Pow2(28)} :
    /\ updatePriorities(<<idx>>, <<e>>)
    /\ SlotCalled("updatePriorities", [idx |-> idx, e |-> e])
    /\ UNCHANGED <<capacity, buffer, position, priorityEps,
                   alpha, beta, betaIncrement, sampled, learnerUpdates>>

(***************************************************************************)
(* runTraining in auto mode: what the loop does when an episode finishes.  *)
(***************************************************************************)
checkpointIntervalEpisodes == 5000
checkpointIntervalMinutes == 60
minSaveCooldownMinutes == 10
MinuteMs == 60000

\* Date.now() when the run starts: far above every interval and cooldown.
EpochMs == 24 * 60 * MinuteMs
DateNow(t) == EpochMs + t

\* Wall-clock time a block of episodes takes, and one evaluation run.
LoopGaps == {5 * MinuteMs, 60 * MinuteMs}
EvalDurations == {MinuteMs, 10 * MinuteMs}

\* Average fruits of an evaluation run.
LoopFruits == {10, 20}

\* Values of summary.maFruit500 at the end of a block.
LoopMaFruit == {60, 61}

\* saveDir/best before the first best_eval checkpoint
NoBestDir == [present |-> FALSE, episode |-> 0, boardSize |-> 0, agentParams |-> 0]

NoLoopOp ==
  [name |-> "new", advanced |-> FALSE, evaluated |-> FALSE, improved |-> FALSE,
   rollback |-> "none", logged |-> FALSE, saved |-> << >>, pre |-> << >>]

\* runTraining up to the loop: the scheduler's lastCheckpointTime, the
\* periodic-checkpoint marks, an empty save directory, the untrained agent.
LoopNew ==
  /\ lastCheckpointTime = 0
  /\ lastPeriodicCheckpointEpisode = 0
  /\ lastPeriodicCheckpointTime = DateNow(StartTime)
  /\ bestDir = NoBestDir
  /\ agentParams = 0
  /\ contextsEpoch = 0
  /\ stopRequested = FALSE
  /\ prevSave = [any |-> FALSE, reason |-> "none", episode |-> 0, at |-> 0,
                 extra |-> FALSE, extraAt |-> 0]
  /\ loopOp = NoLoopOp

\* scheduler.shouldCheckpoint(now): the answer and lastCheckpointTime after it
shouldCheckpoint(t, last) ==
  IF t - last < minSaveCooldownMinutes * MinuteMs
    THEN [ok |-> FALSE, last |-> last]
    ELSE [ok |-> TRUE, last |-> t]

\* The state one finished episode is processed on; saved lists the checkpoints
\* written while processing it, prev the last checkpoint and the last extra
\* checkpoint written before each.
LoopState(t, ep, ma500, ma100) ==
  [now |-> t, episode |-> ep, maFruit500 |-> ma500, maFruit100 |-> ma100,
   boardIndex |-> boardIndex, lastBoardChangeEpisode |-> lastBoardChangeEpisode,
   boardSize |-> boardSize, bestEval |-> bestEval, bestEvalEpisode |-> bestEvalEpisode,
   lastEvalEpisode |-> lastEvalEpisode, lastCheckpointTime |-> lastCheckpointTime,
   lastPeriodicCheckpointEpisode |-> lastPeriodicCheckpointEpisode,
   lastPeriodicCheckpointTime |-> lastPeriodicCheckpointTime,
   bestDir |-> bestDir, agentParams |-> ep, agent |-> agent, rewardConfig |-> rewardConfig,
   contextsEpoch |-> contextsEpoch, queueReset |-> FALSE, pruned |-> FALSE,
   prev |-> prevSave, saved |-> << >>, advanced |-> FALSE, evaluated |-> FALSE,
   improved |-> FALSE, rollback |-> "none", logged |-> FALSE, pre |-> << >>]

\* checkpointManager.save({agentState, rewardConfig, meta, reason, isBest}),
\* awaited, and the marks the loop sets after it.
saveCheckpoint(st, reason, isBest, t) ==
  LET rec == [reason |-> reason, episode |-> st.episode, at |-> t, prev |-> st.prev]
      extra == reason \in {"board_change", "best_eval"}
  IN [st EXCEPT !.saved = Append(@, rec),
                !.prev = [any |-> TRUE, reason |-> reason, episode |-> st.episode, at |-> t,
                          extra |-> (@.extra \/ extra),
                          extraAt |-> IF extra THEN t ELSE @.extraAt],
                !.bestDir = IF isBest
                              THEN [present |-> TRUE, episode |-> st.episode,
                                    boardSize |-> st.boardSize,
                                    agentParams |-> st.agentParams]
                              ELSE @,
                !.lastPeriodicCheckpointEpisode = st.episode,
                !.lastPeriodicCheckpointTime = t]

\* if (newBoard) { ... }: the new board, the reset of every environment,
\* pruneReplay(0.5) and the board_change checkpoint
boardStage(st) ==
  LET res == maybeAdvanceBoard(st.boardIndex, st.maFruit500)
  IN IF res.size = 0 THEN st
     ELSE LET ck == shouldCheckpoint(DateNow(st.now), st.lastCheckpointTime)
              s1 == [st EXCEPT !.boardIndex = res.index,
                               !.lastBoardChangeEpisode = st.episode,
                               !.boardSize = res.size,
                               !.contextsEpoch = @ + 1,
                               !.pruned = TRUE,
                               !.advanced = TRUE,
                               !.lastCheckpointTime = ck.last]
          IN IF ck.ok THEN saveCheckpoint(s1, "board_change", FALSE, DateNow(st.now))
             ELSE s1

\* fs.readFile(best/checkpoint.json) rejects when the file does not exist
ReadFailsNever(dir) == FALSE

ReadFails(dir) == ~dir.present

\* loadCheckpoint(agent, rewardConfig, env, bestDir) inside the try block and
\* the statements after it; the catch block logs and lets the loop go on.
rollbackStage(st) ==
  LET s0 == [st EXCEPT !.pre = [agentParams |-> st.agentParams, agent |-> st.agent,
                                rewardConfig |-> st.rewardConfig,
                                boardSize |-> st.boardSize,
                                contextsEpoch |-> st.contextsEpoch]]
  IN IF ReadFails(st.bestDir)
       THEN [s0 EXCEPT !.rollback = "failed", !.logged = TRUE]
       ELSE [s0 EXCEPT !.agentParams = st.bestDir.agentParams,
                       !.queueReset = TRUE,
                       !.boardSize = IF st.bestDir.boardSize # 0
                                       THEN st.bestDir.boardSize ELSE @,
                       !.contextsEpoch = @ + 1,
                       !.rollback = "done", !.logged = TRUE]

\* if (scheduler.maybeEval(totalEpisodes)) { ... }: registerEval,
\* runEvaluation, updateBestEval, the best_eval checkpoint and the rollback
evalStage(st, fruits, evalMs) ==
  IF st.episode - st.lastEvalEpisode < EVAL_INTERVAL_EPISODES THEN st
  ELSE LET improved == improves(st.bestEval, fruits)
           nowEval == DateNow(st.now + evalMs)
           ck == IF improved THEN shouldCheckpoint(nowEval, st.lastCheckpointTime)
                 ELSE [ok |-> FALSE, last |-> st.lastCheckpointTime]
           s1 == [st EXCEPT !.lastEvalEpisode = st.episode,
                            !.now = st.now + evalMs,
                            !.evaluated = TRUE,
                            !.improved = improved,
                            !.bestEval = IF improved
                                           THEN [isNull |-> FALSE, episode |-> st.episode,
                                                 fruits |-> fruits]
                                           ELSE @,
                            !.bestEvalEpisode = IF improved THEN st.episode ELSE @,
                            !.lastCheckpointTime = ck.last]
       IN Only({IF needsRollback(s2.bestEval, s2.bestEvalEpisode, s2.maFruit100, s2.episode)
                  THEN rollbackStage(s2) ELSE s2 :
                  s2 \in {IF ck.ok THEN saveCheckpoint(s1, "best_eval", TRUE, nowEval)
                          ELSE s1}})

\* The periodic checkpoint is due
PeriodicDueEarly(st) ==
  /\ st.episode > 0
  /\ st.episode - st.lastPeriodicCheckpointEpisode >= checkpointIntervalEpisodes

PeriodicDue(st) ==
  /\ st.episode > 0
  /\ st.episode - st.lastPeriodicCheckpointEpisode >= checkpointIntervalEpisodes
  /\ DateNow(st.now) - st.lastPeriodicCheckpointTime >= checkpointIntervalMinutes * MinuteMs

periodicStage(st) ==
  IF PeriodicDue(st) THEN saveCheckpoint(st, "periodic", FALSE, DateNow(st.now)) ELSE st

processEpisode(st, fruits, evalMs) ==
  Only({periodicStage(s2) : s2 \in {evalStage(s1, fruits, evalMs) : s1 \in {boardStage(st)}}})

\* The last episode of a block finishes in auto mode: the curriculum check
\* with its checkpoint, the evaluation with its checkpoint and rollback, the
\* periodic checkpoint.  The metrics summary of the pass (maFruit500,
\* maFruit100) is an input; recording the episode and tuning act on the
\* metrics and the scheduler's rule fields; the saves leave their mark in
\* best/.
ProcessEpisode ==
  /\ ~stopRequested
  /\ blockCount < MaxBlocks
  /\ blockCount' = blockCount + 1
  /\ \E gap \in LoopGaps, ma500 \in LoopMaFruit, ma100 \in MaValues,
        fruits \in LoopFruits, evalMs \in EvalDurations :
     \E r \in {processEpisode(LoopState(now + gap, totalEpisodes + EpisodeBlock, ma500, ma100),
                              fruits, evalMs)} :
       /\ now' = r.now
       /\ totalEpisodes' = r.episode
       /\ boardIndex' = r.boardIndex
       /\ lastBoardChangeEpisode' = r.lastBoardChangeEpisode
       /\ boardSize' = r.boardSize
       /\ bestEval' = r.bestEval
       /\ bestEvalEpisode' = r.bestEvalEpisode
       /\ lastEvalEpisode' = r.lastEvalEpisode
       /\ lastCheckpointTime' = r.lastCheckpointTime
       /\ lastPeriodicCheckpointEpisode' = r.lastPeriodicCheckpointEpisode
       /\ lastPeriodicCheckpointTime' = r.lastPeriodicCheckpointTime
       /\ bestDir' = r.bestDir
       /\ agentParams' = r.agentParams
       /\ contextsEpoch' = r.contextsEpoch
       /\ prevSave' = r.prev
       /\ rollbacks' = IF r.rollback = "done" THEN rollbacks + 1 ELSE rollbacks
       /\ loopOp' = [name |-> "episode", advanced |-> r.advanced, evaluated |-> r.evaluated,
                     improved |-> r.improved, rollback |-> r.rollback, logged |-> r.logged,
                     saved |-> r.saved, pre |-> r.pre]
       /\ queue' = IF r.queueReset THEN << >> ELSE queue
       /\ IF r.pruned
            THEN /\ dropOldest(FracDen \div 2)
                 /\ bufOp' = [name |-> "dropOldest", pre |-> buffer, arg |-> FracDen \div 2]
                 /\ onlyPushes' = FALSE
                 /\ bufPre' = Snapshot
                 /\ UNCHANGED <<pushCount, opCount, sampled, learnerUpdates>>
            ELSE UNCHANGED bufVars
  /\ UNCHANGED <<stopRequested, maFruit500, maFruit100, maHistory, evalOp>>
  /\ UNCHANGED <<n, gamma, lambda, stepCount, reconfCount, epPushed, epEmitted, epClean, accOp>>
  /\ UNCHANGED <<fs, pc, cur, saveSerial, lastPrune, retainCheckpoints, saveCapMB,
                 savesDone, crashCount, tickCount, lastPruned, pruneOp, lastSave>>
  /\ UNCHANGED <<schedVars, guardVars, metricsVars, envVars>>

\* SIGINT or SIGTERM: shutdown() sets stopRequested, the loop ends, and
\* flushFinalCheckpoint saves when both intervals have passed.
Shutdown ==
  /\ ~stopRequested
  /\ stopRequested' = TRUE
  /\ \E st \in {LoopState(now, totalEpisodes, maFruit500, maFruit100)} :
     \E due \in {/\ st.episode - st.lastPeriodicCheckpointEpisode >= checkpointIntervalEpisodes
                 /\ DateNow(st.now) - st.lastPeriodicCheckpointTime >=
                      Max(checkpointIntervalMinutes, minSaveCooldownMinutes) * MinuteMs} :
     \E r \in {IF due THEN saveCheckpoint(st, "final", FALSE, DateNow(st.now)) ELSE st} :
       /\ prevSave' = r.prev
       /\ loopOp' = [NoLoopOp EXCEPT !.name = "shutdown", !.saved = r.saved]
  /\ UNCHANGED <<lastCheckpointTime, lastPeriodicCheckpointEpisode,
                 lastPeriodicCheckpointTime, bestDir, agentParams, contextsEpoch>>
  /\ UNCHANGED <<bufVars, accVars, fsVars, schedVars, evalVars, boardVars, guardVars,
                 metricsVars, envVars>>

(***************************************************************************)
(* runTraining with several environments: one pass of the while loop.      *)
(***************************************************************************)
EnvCount == 2
Envs == 0..(EnvCount - 1)
MaxEnvPasses == 4

\* batchSize in auto mode; agent.learn() returns null while the replay
\* buffer holds fewer transitions.
LoopBatchSize == 256

\* The state an environment returns: which environment, which of its
\* episodes (the count of its resets), how many steps into it.
StateTag(i, e, k) == [env |-> i, ep |-> e, k |-> k]

\* env.reset() inside the constructor of the run, one accumulator per
\* environment
EnvsNew ==
  /\ envQueues = [i \in Envs |-> << >>]
  /\ envEpisode = [i \in Envs |-> 0]
  /\ envSteps = [i \in Envs |-> 0]
  /\ emitted = << >>
  /\ envPasses = 0

\* this.buffer.push(sample) for each sample of a list, on the buffer's fields
RECURSIVE pushEach(_, _)
pushEach(b, samples) ==
  IF Len(samples) = 0 THEN b
  ELSE LET idx == PushSlot(Len(b.buffer), capacity, b.position)
           entry == Entry([s |-> samples[1].s, a |-> samples[1].a, r |-> samples[1].r,
                           ns |-> samples[1].ns, d |-> samples[1].d, w |-> 1])
       IN pushEach([b EXCEPT !.buffer = IF Len(b.buffer) < capacity
                                          THEN Append(b.buffer, entry)
                                          ELSE [b.buffer EXCEPT ![idx + 1] = entry],
                             !.priorities = [@ EXCEPT ![idx + 1] = Fround(b.maxPriority)],
                             !.position = (b.position + 1) % capacity],
                   Tail(samples))

\* agent.pruneReplay(0.5) on the buffer's fields
pruneHalf(b) ==
  LET removeCount == (Len(b.buffer) * clampFraction(FracDen \div 2)) \div FracDen
      kept == SubSeq(b.buffer, removeCount + 1, Len(b.buffer))
  IN IF removeCount <= 0 THEN b
     ELSE [b EXCEPT !.buffer = kept,
                    !.priorities = Zeros(capacity),
                    !.maxPriority = priorityEps,
                    !.position = Len(kept) % capacity]

\* The pass so far: the loop's state, the accumulators' queues, each
\* environment's episode and step, the replay buffer, the shaped transitions
\* pushed.
PassState(ls) ==
  [ls |-> ls, queues |-> envQueues, eps |-> envEpisode, steps |-> envSteps,
   buf |-> [buffer |-> buffer, priorities |-> priorities, position |-> position,
            maxPriority |-> maxPriority],
   out |-> << >>]

\* agent.recordTransition(idx, ctx.state, action, reward, nextState, done)
recordTransition(ps, i, done) ==
  LET step == [s |-> StateTag(i, ps.eps[i], ps.steps[i]), a |-> 0, r |-> Unit,
               ns |-> StateTag(i, ps.eps[i], ps.steps[i] + 1), d |-> done]
      res == pushResult(ps.queues[i], step, n, gamma, lambda)
      tail == IF done THEN flush(res.queue, n, gamma, lambda) ELSE << >>
  IN [ps EXCEPT !.queues[i] = IF done THEN << >> ELSE res.queue,
                !.steps[i] = @ + 1,
                !.buf = pushEach(@, res.ready \o tail),
                !.out = @ \o res.ready \o tail]

\* stepResult.nextStates.forEach(...)
RECURSIVE recordAll(_, _, _)
recordAll(ps, i, dones) ==
  IF i >= EnvCount THEN ps
  ELSE recordAll(recordTransition(ps, i, dones[i]), i + 1, dones)

\* The loop's state when the next episode finishes within the same run.
nextEpisodeState(ls, ma500, ma100) ==
  [ls EXCEPT !.episode = @ + 1, !.agentParams = ls.episode + 1,
             !.maFruit500 = ma500, !.maFruit100 = ma100,
             !.queueReset = FALSE, !.pruned = FALSE, !.saved = << >>,
             !.advanced = FALSE, !.evaluated = FALSE, !.improved = FALSE,
             !.rollback = "none", !.logged = FALSE, !.pre = << >>]

\* env.reset() and fresh contexts for every environment
resetAll(ps) ==
  [ps EXCEPT !.eps = [i \in Envs |-> @[i] + 1], !.steps = [i \in Envs |-> 0]]

\* The body of the for loop for a finished environment i: env.resetEnv(i),
\* the episode count, then the scheduler's part.  A board change resets every
\* environment and prunes the replay buffer; a rollback imports the agent
\* state (fresh accumulators), resets every environment and flushes.
finishEpisode(ps, i, ma500, ma100, fruits, evalMs) ==
  LET ls == processEpisode(nextEpisodeState(ps.ls, ma500, ma100), fruits, evalMs)
      p1 == [ps EXCEPT !.ls = ls, !.eps[i] = @ + 1, !.steps[i] = 0]
      p2 == IF ls.advanced THEN [resetAll(p1) EXCEPT !.buf = pruneHalf(@)] ELSE p1
  IN IF ls.rollback = "done"
       THEN [resetAll(p2) EXCEPT !.queues = [j \in Envs |-> << >>]]
       ELSE p2

\* for (let i = 0; i < contexts.length; i += 1) { if (!dones[i]) continue; ... }
RECURSIVE finishAll(_, _, _, _, _, _, _)
finishAll(ps, i, dones, ma500, ma100, fruits, evalMs) ==
  IF i >= EnvCount THEN ps
  ELSE finishAll(IF dones[i] THEN finishEpisode(ps, i, ma500, ma100, fruits, evalMs) ELSE ps,
                 i + 1, dones, ma500, ma100, fruits, evalMs)

\* One pass of the while loop in auto mode: every environment steps and its
\* transition is recorded, agent.learn() (null below the batch size), then
\* every finished episode is processed in turn.  The summary and evaluation
\* inputs are those of the pass.
LoopStep ==
  /\ ~stopRequested
  /\ envPasses < MaxEnvPasses
  /\ capacity < LoopBatchSize
  /\ envPasses' = envPasses + 1
  /\ \E dones \in [Envs -> BOOLEAN], ma500 \in LoopMaFruit, ma100 \in MaValues,
        fruits \in LoopFruits, evalMs \in EvalDurations :
     \E r \in {finishAll(ps, 0, dones, ma500, ma100, fruits, evalMs) :
                 ps \in {recordAll(PassState(LoopState(now, totalEpisodes, ma500, ma100)),
                                   0, dones)}} :
       /\ envQueues' = r.queues
       /\ envEpisode' = r.eps
       /\ envSteps' = r.steps
       /\ emitted' = r.out
       /\ buffer' = r.buf.buffer
       /\ priorities' = r.buf.priorities
       /\ position' = r.buf.position
       /\ maxPriority' = r.buf.maxPriority
       /\ bufOp' = [name |-> "loopStep", pre |-> buffer, arg |-> Len(r.out)]
       /\ bufPre' = Snapshot
       /\ onlyPushes' = (onlyPushes /\ Len(buffer') >= Len(buffer))
       /\ now' = r.ls.now
       /\ totalEpisodes' = r.ls.episode
       /\ boardIndex' = r.ls.boardIndex
       /\ lastBoardChangeEpisode' = r.ls.lastBoardChangeEpisode
       /\ boardSize' = r.ls.boardSize
       /\ bestEval' = r.ls.bestEval
       /\ bestEvalEpisode' = r.ls.bestEvalEpisode
       /\ lastEvalEpisode' = r.ls.lastEvalEpisode
       /\ lastCheckpointTime' = r.ls.lastCheckpointTime
       /\ lastPeriodicCheckpointEpisode' = r.ls.lastPeriodicCheckpointEpisode
       /\ lastPeriodicCheckpointTime' = r.ls.lastPeriodicCheckpointTime
       /\ bestDir' = r.ls.bestDir
       /\ agentParams' = r.ls.agentParams
       /\ contextsEpoch' = r.ls.contextsEpoch
       /\ prevSave' = r.ls.prev
       /\ rollbacks' = IF r.ls.rollback = "done" THEN rollbacks + 1 ELSE rollbacks
       /\ loopOp' = [name |-> "step", advanced |-> r.ls.advanced,
                     evaluated |-> r.ls.evaluated, improved |-> r.ls.improved,
                     rollback |-> r.ls.rollback, logged |-> r.ls.logged,
                     saved |-> r.ls.saved, pre |-> r.ls.pre]
  /\ UNCHANGED <<capacity, priorityEps, alpha, beta, betaIncrement, pushCount, opCount,
                 sampled, learnerUpdates>>
  /\ UNCHANGED <<stopRequested, blockCount, maFruit500, maFruit100, maHistory, evalOp>>
  /\ UNCHANGED <<accVars>>
  /\ UNCHANGED <<fs, pc, cur, saveSerial, lastPrune, retainCheckpoints, saveCapMB,
                 savesDone, crashCount, tickCount, lastPruned, pruneOp, lastSave>>
  /\ UNCHANGED <<schedVars, guardVars, metricsVars>>

\* The components a specification does not explore, as constructed.
RestNew == MetricsNew /\ LoopNew /\ EnvsNew

\* Each specification explores one component; the others stay as constructed.
InitBuffer == BufferNew(0..MaxCap) /\ AccNew({1}, {9800}, {Unit}) /\ FsNew({5}, {1024}) /\ SchedNew /\ EvalNew /\ BoardNew /\ GuardNew({ParentLogs}, {3}, {200}) /\ RestNew

NextBuffer == Push \/ DropOldest

SpecBuffer == InitBuffer /\ [][NextBuffer]_vars

InitReplay == BufferNew({MaxCap}) /\ AccNew({1}, {9800}, {Unit}) /\ FsNew({5}, {1024}) /\ SchedNew /\ EvalNew /\ BoardNew /\ GuardNew({ParentLogs}, {3}, {200}) /\ RestNew
NextReplay == Push \/ DropOldest \/ SetCapacity \/ SetPriorityEps \/ UpdatePriorities
SpecReplay == InitReplay /\ [][NextReplay]_vars

InitLearn == BufferNew({2}) /\ AccNew({1}, {9800}, {Unit}) /\ FsNew({5}, {1024}) /\ SchedNew /\ EvalNew /\ BoardNew /\ GuardNew({ParentLogs}, {3}, {200}) /\ RestNew
NextLearn == Push \/ Sample \/ LearnOnce \/ Learn
SpecLearn == InitLearn /\ [][NextLearn]_vars

\* A capacity-4 buffer constructed with alpha = 0.
InitUniform ==
  /\ BufferNewOpts({4}, {0}, {BetaIncrementDefault})
  /\ AccNew({1}, {9800}, {Unit}) /\ FsNew({5}, {1024}) /\ SchedNew /\ EvalNew /\ BoardNew /\ GuardNew({ParentLogs}, {3}, {200}) /\ RestNew
NextUniform == Push \/ SampleFull
SpecUniform == InitUniform /\ [][NextUniform]_vars

\* The buffer of an agent under the scheduler, for the configured
\* priorityBetaIncrement values.
BetaIncrements == {BetaIncrementDefault, 1000}
InitBeta ==
  /\ BufferNewOpts({1}, {PriorityAlphaDefault}, BetaIncrements)
  /\ AccNew({3}, {9800}, {9500}) /\ FsNew({5}, {1024}) /\ SchedNew /\ EvalNew /\ BoardNew /\ GuardNew({ParentLogs}, {3}, {200}) /\ RestNew
NextBeta == Push \/ Sample \/ AnnealPER
SpecBeta == InitBeta /\ [][NextBeta]_vars

InitAcc == BufferNew({1}) /\ AccNew(0..MaxN, {9000}, Lambdas) /\ FsNew({5}, {1024}) /\ SchedNew /\ EvalNew /\ BoardNew /\ GuardNew({ParentLogs}, {3}, {200}) /\ RestNew

NextAcc == AccPush \/ AccFlush \/ SetGamma \/ SetNStep

SpecAcc == InitAcc /\ [][NextAcc]_vars

InitFs == BufferNew({1}) /\ AccNew({1}, {9800}, {Unit}) /\ FsNew({0, MaxRetain}, SaveCaps) /\ SchedNew /\ EvalNew /\ BoardNew /\ GuardNew({ParentLogs}, {3}, {200}) /\ RestNew

NextFs ==
  \/ SaveBegin \/ SaveOpen \/ SaveWrite \/ SaveRename \/ SaveCleanup
  \/ PtrRemoveTemp \/ PtrMakeTemp \/ PtrCopyOpen \/ PtrCopyWrite
  \/ PtrRemoveFile \/ PtrRemoveDir \/ PtrRename
  \/ SavePrune \/ Crash \/ Tick

SpecFs == InitFs /\ [][NextFs]_vars

InitSched == BufferNew({1}) /\ AccNew({3}, {9800}, {9500}) /\ FsNew({5}, {1024}) /\ SchedNew /\ EvalNew /\ BoardNew /\ GuardNew({ParentLogs}, {3}, {200}) /\ RestNew
NextSched == TuneHyperparams
SpecSched == InitSched /\ [][NextSched]_vars

InitEval ==
  /\ BufferNew({1}) /\ AccNew({3}, {9800}, {9500}) /\ FsNew({5}, {1024})
  /\ SchedNew /\ EvalNew /\ BoardNew /\ GuardNew({ParentLogs}, {3}, {200}) /\ RestNew
NextEval == FinishBlock
SpecEval == InitEval /\ [][NextEval]_vars

InitBoard ==
  /\ BufferNew({2}) /\ AccNew({3}, {9800}, {9500}) /\ FsNew({5}, {1024})
  /\ SchedNew /\ EvalNew /\ BoardNew /\ GuardNew({ParentLogs}, {3}, {200}) /\ RestNew
NextBoard == Push \/ FinishEpisode
SpecBoard == InitBoard /\ [][NextBoard]_vars

\* DiskGuard constructed with the logger's directory as logDir.
RetainLogsValues == {1, 10}
LogCaps == {3, 200}
InitRotate ==
  /\ BufferNew({1}) /\ AccNew({3}, {9800}, {9500}) /\ FsNew({5}, {1024})
  /\ SchedNew /\ EvalNew /\ BoardNew /\ GuardNew({SaveLogs}, RetainLogsValues, LogCaps) /\ RestNew
NextRotate == LogAppend
SpecRotate == InitRotate /\ [][NextRotate]_vars

\* DiskGuard and TrainingLogger as runTraining constructs them.
InitGuard ==
  /\ BufferNew({1}) /\ AccNew({3}, {9800}, {9500}) /\ FsNew({0, 5}, {1024})
  /\ SchedNew /\ EvalNew /\ BoardNew /\ GuardNew({ParentLogs, SaveLogs}, {3}, {200}) /\ RestNew
NextGuard == GuardLogAppend \/ PruneCall \/ Tick
SpecGuard == InitGuard /\ [][NextGuard]_vars

InitOverlap ==
  /\ BufferNew({1}) /\ AccNew({3}, {9800}, {9500}) /\ FsNew({0, 5}, {1024})
  /\ SchedNew /\ EvalNew /\ BoardNew /\ GuardNew({ParentLogs}, {3}, {200}) /\ RestNew
NextOverlap == (\E c \in 1..2 : PruneEnter(c) \/ PruneList(c) \/ PruneRemove(c)) \/ Tick
SpecOverlap == InitOverlap /\ [][NextOverlap]_vars

InitLoop ==
  /\ BufferNew({2}) /\ AccNew({3}, {9800}, {9500}) /\ FsNew({5}, {1024})
  /\ SchedNew /\ EvalNew /\ BoardNew /\ GuardNew({ParentLogs}, {3}, {200})
  /\ MetricsNew /\ LoopNew /\ EnvsNew
NextLoop == ProcessEpisode \/ Shutdown
SpecLoop == InitLoop /\ [][NextLoop]_vars

InitEnvs ==
  /\ BufferNew({4}) /\ AccNew({3}, {9800}, {9500}) /\ FsNew({5}, {1024})
  /\ SchedNew /\ EvalNew /\ BoardNew /\ GuardNew({ParentLogs}, {3}, {200})
  /\ MetricsNew /\ LoopNew /\ EnvsNew
NextEnvs == LoopStep
SpecEnvs == InitEnvs /\ [][NextEnvs]_vars

\* Values of --eps-end and --n-step besides the defaults.
EpsEndOptions == {EPS_END_MIN \div 2, EpsEndDefault}
NStepOptions == {3, NSTEP_MAX + 3}

InitConfig ==
  /\ BufferNew({1}) /\ AccNew(NStepOptions, {9800}, {9500}) /\ FsNew({5}, {1024})
  /\ SchedNewOpts(EpsEndOptions) /\ EvalNew /\ BoardNew
  /\ GuardNew({ParentLogs}, {3}, {200}) /\ RestNew
NextConfig == TuneHyperparams
SpecConfig == InitConfig /\ [][NextConfig]_vars

InitSlots ==
  /\ BufferNew({2}) /\ AccNew({1}, {9800}, {Unit}) /\ FsNew({5}, {1024})
  /\ SchedNew /\ EvalNew /\ BoardNew /\ GuardNew({ParentLogs}, {3}, {200}) /\ RestNew
NextSlots == Push \/ DropOldest \/ SlotSetCapacity \/ SlotSample \/ SlotUpdatePriorities
SpecSlots == InitSlots /\ [][NextSlots]_vars

InitMetrics ==
  /\ BufferNew({1}) /\ AccNew({1}, {9800}, {Unit}) /\ FsNew({5}, {1024})
  /\ SchedNew /\ EvalNew /\ BoardNew /\ GuardNew({ParentLogs}, {3}, {200}) /\ MetricsNew /\ LoopNew /\ EnvsNew
NextMetrics == RecordEpisode
SpecMetrics == InitMetrics /\ [][NextMetrics]_vars

\* ------------------------------------------------------------- claims

\* C1: starting from an empty buffer of capacity C and doing k pushes with
\* nothing in between, size() is min(k, C) and the j-th push (0-based) sits in
\* slot j mod C for each of the min(k, C) most recent pushes.
C1_PushRing ==
  onlyPushes =>
    /\ Len(buffer) = Min(pushCount, capacity)
    /\ \A j \in (pushCount - Len(buffer))..(pushCount - 1) :
         buffer[(j % capacity) + 1].s = j

C1_Witness == onlyPushes /\ capacity > 1 /\ pushCount > capacity + 1

\* The serial numbers of the keep most recently inserted entries of seq.
NewestSerials(seq, keep) ==
  {seq[i].s : i \in {k \in 1..Len(seq) :
      Cardinality({j \in 1..Len(seq) : seq[j].s > seq[k].s}) < keep}}

\* C10: dropOldest(f) removes exactly the floor(f * size) entries inserted
\* earliest and keeps the others, the most recent ones, in insertion order.
C10_DropOldestRemovesEarliest ==
  (bufOp.name = "dropOldest" /\ bufOp.arg \in 0..FracDen) =>
    LET pre == bufOp.pre
        keep == Len(pre) - ((Len(pre) * bufOp.arg) \div FracDen)
    IN /\ Len(buffer) = keep
       /\ {buffer[i].s : i \in 1..Len(buffer)} = NewestSerials(pre, keep)
       /\ \A i \in 1..(Len(buffer) - 1) : buffer[i].s < buffer[i + 1].s

\* C5: an episode of L transitions pushed in order (only the last terminal,
\* no reconfiguration, queue empty at its start) makes the push calls emit
\* exactly L shaped transitions, the i-th starting at the i-th original one,
\* and leaves the queue empty after the terminal push.
C5_EpisodeEmitsEveryStep ==
  (epClean /\ EpisodeOver /\ accOp.name = "push") =>
    /\ Len(epEmitted) = Len(epPushed)
    /\ \A i \in 1..Len(epEmitted) : epEmitted[i].s = epPushed[i].s
    /\ queue = << >>

\* C6: with n = 1 and lambda = 1 the shaped transitions emitted by the pushes
\* of an episode are the pushed transitions themselves, in the same order and
\* with the same state, action, reward, nextState and done; nothing is left
\* for a final flush.
C6_IdentityAtN1 ==
  (n = 1 /\ lambda = Unit /\ epClean) =>
    /\ epEmitted = epPushed
    /\ queue = << >>

C6_Witness ==
  /\ n = 1 /\ lambda = Unit /\ epClean /\ EpisodeOver
  /\ Len(epPushed) >= 2 /\ epEmitted = epPushed
  /\ epEmitted[1].r # epEmitted[2].r

\* The n-step return of the claim: the sum over i < k of gamma^i * r_i.
RECURSIVE DiscountedSum(_, _, _)
DiscountedSum(steps, k, g) ==
  IF k <= 0 THEN 0
  ELSE DiscountedSum(steps, k - 1, g) + Mul(PowFix(g, k - 1), steps[k].r)

\* C7: with lambda = 1, pushing n non-terminal transitions into an empty
\* accumulator emits nothing for the first n-1 pushes and one shaped
\* transition on the n-th: reward sum of gamma^i * r_i, state and action of
\* the first step, nextState of the n-th; n = 3, gamma = 0.9, rewards 1,1,1
\* give 2.71.
C7_PureNStepReturn ==
  (lambda = Unit /\ epClean /\ ~EpisodeOver /\ accOp.name = "push") =>
    /\ Len(epPushed) < n => epEmitted = << >>
    /\ Len(epPushed) = n =>
         /\ Len(epEmitted) = 1
         /\ epEmitted[1].r = DiscountedSum(epPushed, n, gamma)
         /\ epEmitted[1].s = epPushed[1].s
         /\ epEmitted[1].a = epPushed[1].a
         /\ epEmitted[1].ns = epPushed[n].ns
         /\ (n = 3 /\ gamma = 9000 /\ \A i \in 1..3 : epPushed[i].r = Unit)
              => epEmitted[1].r = 27100

C7_Witness ==
  /\ lambda = Unit /\ epClean /\ ~EpisodeOver /\ accOp.name = "push"
  /\ n = 3 /\ gamma = 9000 /\ Len(epPushed) = 3
  /\ \A i \in 1..3 : epPushed[i].r = Unit
  /\ Len(epEmitted) = 1 /\ epEmitted[1].r = 27100

\* C8: with lambda = 0 and any horizon, every shaped transition emitted is the
\* one-step transition of its first step: that step's reward, nextState and
\* done.
C8_LambdaZeroIsOneStep ==
  (lambda = 0 /\ accOp.name \in {"push", "flush"}) =>
    \A i \in 1..Len(accOp.out) :
      /\ accOp.out[i].s = accOp.pre[i].s
      /\ accOp.out[i].r = accOp.pre[i].r
      /\ accOp.out[i].ns = accOp.pre[i].ns
      /\ accOp.out[i].d = accOp.pre[i].d

\* C9: a reconfiguration (setConfig through setGamma / setNStep) keeps the
\* raw transitions pending in the queue; none is discarded.
C9_ReconfigKeepsPending ==
  accOp.name = "setConfig" => queue = accOp.pre

\* C2: once a first save has completed, at every point of a later save the
\* latest/ pointer exists and holds a complete checkpoint.json.
C2_LatestAlwaysComplete ==
  savesDone >= 1 => (fs[Latest].present /\ fs[Latest].file = "full")

\* C3: whatever the retention count and the size budget, pruneCheckpoints
\* never deletes the latest/ or best/ pointer directory.
C3_PruneSparesPointers ==
  /\ Latest \notin lastPruned /\ Best \notin lastPruned
  /\ (pc = "idle" /\ savesDone >= 1 /\ crashCount = 0) =>
       /\ fs[Latest].present /\ fs[Latest].file = "full"
       /\ fs[Latest].id = saveSerial
       /\ fs[Best].id > 0 => (fs[Best].present /\ fs[Best].file = "full")

C3_Witness ==
  /\ pc = "idle" /\ savesDone >= 2 /\ crashCount = 0
  /\ retainCheckpoints = 0 /\ saveCapMB = 0
  /\ lastPruned # {} /\ lastPrune > 0
  /\ fs[Latest].present /\ fs[Best].present
  /\ \A k \in 1..MaxSaves : ~fs[TargetDir(k)].present

\* C4: for every rule key gated by _canAdjust, along any sequence of
\* tuneHyperparams calls with non-decreasing episode numbers, two firings of
\* the same rule are at least ADJUST_COOLDOWN_EPISODES (500) episodes apart,
\* whatever the telemetry and whichever other rules fire.
C4_CooldownBetweenFirings ==
  \A k \in Keys : \A i \in 1..(Len(fires[k]) - 1) :
    fires[k][i + 1] - fires[k][i] >= ADJUST_COOLDOWN_EPISODES

C4_Witness ==
  \E k \in Keys :
    /\ Len(fires[k]) >= 2
    /\ k \in blocked
    /\ fires[k][Len(fires[k])] - fires[k][1] = ADJUST_COOLDOWN_EPISODES

\* The serial numbers stored in seq.
Serials(seq) == {seq[i].s : i \in 1..Len(seq)}

\* C11: setCapacity(newCap) with newCap below the current size keeps exactly
\* the newCap most recently inserted entries, in insertion order, also after
\* the pushes have wrapped the ring.
C11_ShrinkKeepsNewest ==
  (bufOp.name = "setCapacity" /\ Max(1, bufOp.arg) < Len(bufOp.pre)) =>
    /\ Len(buffer) = Max(1, bufOp.arg)
    /\ Serials(buffer) = NewestSerials(bufOp.pre, Max(1, bufOp.arg))
    /\ \A i \in 1..(Len(buffer) - 1) : buffer[i].s < buffer[i + 1].s

\* C12: after any push, dropOldest and setCapacity calls, a push onto a full
\* buffer replaces the stored entry inserted earliest and keeps the others.
C12_FullPushReplacesEarliest ==
  (bufOp.name = "push" /\ Len(bufOp.pre) = bufPre.capacity) =>
    LET old == Serials(bufOp.pre)
        earliest == CHOOSE x \in old : \A y \in old : x <= y
    IN Serials(buffer) = (old \ {earliest}) \cup {bufOp.arg}

\* C13: the stored priority of every occupied slot is at least priorityEps.
C13_PriorityAtLeastEps ==
  \A i \in 1..Len(buffer) : priorities[i] >= priorityEps

\* C14: after updatePriorities([i], [e]) slot i holds max(priorityEps, |e|),
\* maxPriority is the larger of its previous value and that priority, and
\* the other slots keep their priorities.
C14_UpdateStoresAbsError ==
  bufOp.name = "updatePriorities" =>
    LET i == bufOp.arg.idx + 1
        e == bufOp.arg.e
        expected == Max(priorityEps, IF e < 0 THEN 0 - e ELSE e)
    IN /\ priorities[i] = expected
       /\ maxPriority = Max(bufPre.maxPriority, expected)
       /\ \A j \in DOMAIN priorities : j # i => priorities[j] = bufPre.priorities[j]

\* The slot (1-based) the last push wrote.
PushedSlot == PushSlot(Len(bufOp.pre), bufPre.capacity, bufPre.position) + 1

\* C15 as stated: right after a push the priority of the written slot equals
\* maxPriority and is at least the priority of every other occupied slot.
C15_NewEntryAtRunningMax ==
  bufOp.name = "push" =>
    /\ priorities[PushedSlot] = maxPriority
    /\ \A j \in 1..Len(buffer) : priorities[PushedSlot] >= priorities[j]

\* C15 amended: right after a push the priority of the written slot is
\* maxPriority as a Float32Array element holds it (rounded to single
\* precision) and is at least the priority of every other occupied slot.
C15_NewEntryAtStoredRunningMax ==
  bufOp.name = "push" =>
    /\ priorities[PushedSlot] = Fround(maxPriority)
    /\ \A j \in 1..Len(buffer) : priorities[PushedSlot] >= priorities[j]

C15_Witness ==
  /\ bufOp.name = "push"
  /\ maxPriority > priorityEps
  /\ Len(buffer) >= 2
  /\ \E j \in 1..Len(buffer) : j # PushedSlot /\ priorities[j] = priorities[PushedSlot]

\* C16: over any interleaving of sample calls and scheduler calls (whose
\* _annealPER sets beta through DQNAgent.setPriorityBeta), the buffer's beta
\* never decreases and never exceeds 1.
C16_BetaMonotone == [][beta' >= beta /\ beta' <= Micro]_vars

\* C17: sample on a buffer with no entries returns null, and the agent's
\* _learnOnce / learn then applies no learner update and leaves every
\* priority as it was.
C17_EmptySampleSkipsLearning ==
  (bufOp.name \in {"sample", "learnOnce", "learn"} /\ Len(bufOp.pre) = 0) =>
    /\ bufOp.name # "learn" => sampled = Null
    /\ learnerUpdates = bufPre.learnerUpdates
    /\ priorities = bufPre.priorities
    /\ maxPriority = bufPre.maxPriority
    /\ beta = bufPre.beta

C17_Witness ==
  /\ bufOp.name = "learnOnce" /\ Len(bufOp.pre) = 0
  /\ sampled = Null /\ learnerUpdates = 0 /\ opCount = 1

\* C18: capacity 4, alpha = 0, pushes A..E (serials 0..4): whatever the
\* random draws, sample(4) returns four entries that are B, C, D, E each
\* once, and four weights equal to 1.
C18_UniformSampleReturnsAll ==
  (capacity = 4 /\ alpha = 0 /\ pushCount = 5 /\ bufOp.name = "sample"
     /\ bufOp.arg = 4 /\ Serials(bufOp.pre) = {1, 2, 3, 4}) =>
    /\ ~sampled.isNull
    /\ Len(sampled.batch) = 4
    /\ \A i, j \in 1..4 : i # j => sampled.batch[i].s # sampled.batch[j].s
    /\ {sampled.batch[i].s : i \in 1..4} = {1, 2, 3, 4}
    /\ \A i \in 1..4 : sampled.weights[i] = One

\* C19: with a previous best, updateBestEval records a new best only when the
\* score beats it by both margins (at least +5 fruits and at least +2 %);
\* otherwise the record is unchanged and false is returned.
C19_BestNeedsBothMargins ==
  (evalOp.name = "eval" /\ ~evalOp.pre.isNull) =>
    LET both == /\ evalOp.fruits >= evalOp.pre.fruits + 5
                /\ evalOp.fruits * 100 >= evalOp.pre.fruits * 102
    IN /\ evalOp.improved => both
       /\ ~both => bestEval = evalOp.pre

\* maFruit100 at the ends of the blocks covering the last window episodes.
WindowBlocks == ROLLBACK_WINDOW_EPISODES \div EpisodeBlock

\* C20: the trainer rolls back only when maFruit100 has stayed below 0.75 of
\* the best evaluation score for at least 5000 consecutive episodes.
C20_RollbackAfterSustainedDip ==
  (evalOp.name = "eval" /\ evalOp.rollback) =>
    /\ Len(maHistory) > WindowBlocks
    /\ \A i \in (Len(maHistory) - WindowBlocks)..Len(maHistory) :
         maHistory[i] * 100 < bestEval.fruits * 75

\* C22: when the exploration revert rule fires with the current floor c above
\* the baseline b, the new floor is the midpoint c - (c - b)/2 whenever
\* (c - b)/2 >= 0.01, and in every case the new floor f satisfies b <= f < c.
C22_RevertStepsHalfway ==
  [][Len(fires'["epsilon-revert"]) > Len(fires["epsilon-revert"]) =>
       LET c == sched.currentEpsEnd
           b == sched.baseEpsEnd
           f == sched'.currentEpsEnd
       IN /\ ((c - b) \div 2 >= 10000 => f = c - (c - b) \div 2)
          /\ b <= f /\ f < c]_vars

\* C21: the curriculum stage index never decreases, rises by exactly one per
\* maybeAdvanceBoard call and only when maFruit500 is strictly above the next
\* stage's threshold, never passes the last stage, and in the training loop
\* every rise comes with dropOldest(0.5) on the replay buffer in the same
\* loop body, before the next learning step.
C21_CurriculumForwardOnly ==
  [][/\ boardIndex' >= boardIndex /\ boardIndex' <= boardIndex + 1
     /\ boardIndex' <= Len(BoardStages) - 1
     /\ boardIndex' > boardIndex =>
          /\ maFruit500' > BoardStages[boardIndex' + 1].threshold
          /\ boardSize' = BoardStages[boardIndex' + 1].size
          /\ bufOp' = [name |-> "dropOldest", pre |-> buffer, arg |-> FracDen \div 2]
          /\ buffer' = SubSeq(buffer, Len(buffer) \div 2 + 1, Len(buffer))
          /\ learnerUpdates' = learnerUpdates]_vars

C21_Witness ==
  /\ boardIndex = Len(BoardStages) - 1
  /\ totalEpisodes = MaxEpisodes
  /\ bufOp.name = "dropOldest" /\ Len(bufOp.pre) = 2 /\ Len(buffer) = 1

\* C23: after a pruneCheckpoints call that is not rate-limited and with the
\* size budget not exceeded, the surviving timestamped checkpoint directories
\* are exactly the min(count, retainCheckpoints) ones with the newest
\* modification times; every deleted one is older than every survivor.
C23_PruneKeepsNewest ==
  (pruneOp.ran /\ ~pruneOp.over) =>
    LET before == DOMAIN pruneOp.pre
        survivors == before \ lastPruned
    IN /\ Cardinality(survivors) = Min(Cardinality(before), retainCheckpoints)
       /\ \A d \in before \ survivors : \A k \in survivors :
            pruneOp.pre[d] < pruneOp.pre[k]

\* C24: in the runTraining wiring pruneCheckpoints deletes only timestamped
\* checkpoint directories produced by CheckpointManager.save: never the
\* training log directory saveDir/logs nor a temp or pointer-staging
\* directory of a save, and the retention count is computed over checkpoint
\* directories only.
C24_PruneOnlyCheckpoints ==
  /\ lastPruned \subseteq {TargetDir(k) : k \in 1..MaxSaves}
  /\ pruneOp.ran =>
       Cardinality(DOMAIN pruneOp.pre \cap lastPruned)
         >= Cardinality(DOMAIN pruneOp.pre) - retainCheckpoints

\* C30: after every save() that completes, latest/ holds a copy of exactly
\* the checkpoint just written; best/ holds that checkpoint too when isBest is
\* true, and is left unchanged by a save with isBest false.
C30_PointersAfterSave ==
  (pc = "idle" /\ lastSave.serial > 0 /\ lastSave.serial = saveSerial) =>
    /\ fs[Latest].present /\ fs[Latest].file = "full" /\ fs[Latest].id = lastSave.serial
    /\ lastSave.isBest =>
         (fs[Best].present /\ fs[Best].file = "full" /\ fs[Best].id = lastSave.serial)
    /\ ~lastSave.isBest => fs[Best] = lastSave.best0

C30_Witness ==
  /\ pc = "idle" /\ savesDone = 2 /\ lastSave.serial = 2 /\ saveSerial = 2
  /\ ~lastSave.isBest /\ lastSave.best0.present /\ lastSave.best0.id = 1
  /\ fs[Latest].id = 2 /\ fs[Best].id = 1

\* C25: in the runTraining wiring the file rotateLogs checks, compresses and
\* truncates is the training_log.jsonl the TrainingLogger appends to, so after
\* every rotateLogs call that is not rate-limited the live log is below the
\* 10 MB rotation threshold.
C25_LiveLogBelowThreshold ==
  (guardLogDir = ParentLogs /\ guardOp.name = "rotate"
     /\ ~RateLimited(guardOp.at, guardOp.preLast)) =>
    logs[SaveLogs].live < LOG_ROTATE_MB

\* C26: over any number of rotations, also past archive number 9, each
\* rotation writes an archive whose number is strictly greater than the number
\* of every archive present, so no existing archive is overwritten.
C26_ArchiveNumbersIncrease ==
  (guardOp.name = "rotate" /\ guardOp.created > 0) =>
    \A i \in Indices(guardOp.mid.archives) : guardOp.created > i

\* C27: after a rotation with more than retainLogs archives present,
\* rotateLogs deletes the archives with the lowest rotation numbers and keeps
\* the retainLogs most recently created ones; the archive just created is
\* among the survivors whenever retainLogs >= 1 and the size budget is not
\* exceeded.
C27_RetentionKeepsNewest ==
  (guardOp.name = "rotate" /\ guardOp.created > 0 /\ ~guardOp.over) =>
    LET before == Indices(guardOp.mid.archives) \cup {guardOp.created}
        after == Indices(logs[guardLogDir].archives)
    IN /\ Cardinality(before) > retainLogs =>
            /\ Cardinality(after) = retainLogs
            /\ \A d \in before \ after : \A k \in after : d < k
       /\ retainLogs >= 1 => guardOp.created \in after

\* C28: a pruneCheckpoints call made less than 30 seconds after the last call
\* that passed the rate limit performs no filesystem operation and does not
\* move the timestamp; the same holds for rotateLogs with its own timestamp,
\* and neither call is held back by the other's timestamp.
C28_RateLimitedCallsDoNothing ==
  /\ guardOp.name = "prune" =>
       IF guardOp.at - guardOp.preLast < HEAVY_TASK_COOLDOWN_MS
         THEN fs = guardOp.mid /\ lastPrune = guardOp.preLast
         ELSE lastPrune = guardOp.at
  /\ guardOp.name = "rotate" =>
       IF guardOp.at - guardOp.preLast < HEAVY_TASK_COOLDOWN_MS
         THEN logs[guardLogDir] = guardOp.mid /\ lastLogPrune = guardOp.preLast
         ELSE lastLogPrune = guardOp.at

C28_Witness ==
  /\ guardOp.name = "rotate" /\ guardLogDir = SaveLogs
  /\ lastPrune > 0 /\ guardOp.at - lastPrune < HEAVY_TASK_COOLDOWN_MS
  /\ lastLogPrune = guardOp.at /\ guardOp.created > 0
  /\ guardCalls >= 2 /\ appendCount >= 2

\* C29: for any asynchronous callers and any duration of the directory walks,
\* two executions of DiskGuard.pruneCheckpoints are never in progress at the
\* same time.
C29_NoOverlappingPrune ==
  Cardinality({c \in DOMAIN running : running[c].pc # "idle"}) <= 1

\* C34: after every push or flush call returns, the accumulator's queue holds
\* at most n - 1 raw transitions (never more than the horizon n) and none of
\* the queued transitions is terminal.
C34_QueueBelowHorizon ==
  accOp.name \in {"push", "flush"} =>
    /\ Len(queue) <= n - 1
    /\ Len(queue) <= n
    /\ \A i \in 1..Len(queue) : ~queue[i].d

C34_Witness ==
  /\ accOp.name = "push" /\ n = MaxN /\ Len(queue) = n - 1
  /\ Len(accOp.out) = 1 /\ reconfCount > 0

\* C35: after any sequence of recordEpisode calls, window100 holds at most
\* 100 records, window500 at most 500, and window100 is exactly the last
\* min(100, |window500|) records of window500 in the same order.
C35_WindowsShareHistory ==
  /\ Len(window100) <= 100
  /\ Len(window500) <= 500
  /\ Len(window100) = Min(100, Len(window500))
  /\ \A i \in 1..Len(window100) :
       window100[i] = window500[Len(window500) - Len(window100) + i]

C35_Witness ==
  /\ episodes > 500 /\ Len(window500) = 500 /\ Len(window100) = 100
  /\ window500[1].episode = episodes - 499
  /\ window100[1].episode = episodes - 99
  /\ window100[100].fruits = 3

\* C39: in every state reachable by push, sample, updatePriorities,
\* dropOldest and setCapacity, the number of stored entries is between 0 and
\* capacity, the occupied slots are exactly the indices 0..size-1 (a push
\* writes a slot that is occupied or the first free one), and every index
\* returned by sample is the index of an occupied slot.
C39_SlotsDense ==
  /\ Len(buffer) >= 0 /\ Len(buffer) <= capacity
  /\ DOMAIN buffer = 1..Len(buffer)
  /\ bufOp.name = "push" =>
       LET idx == PushSlot(Len(bufOp.pre), bufPre.capacity, bufPre.position)
       IN /\ idx >= 0 /\ idx <= Len(bufOp.pre)
          /\ Len(buffer) = Max(Len(bufOp.pre), idx + 1)
  /\ (bufOp.name = "sample" /\ ~sampled.isNull) =>
       \A i \in DOMAIN sampled.indices :
         /\ sampled.indices[i] >= 0 /\ sampled.indices[i] < Len(buffer)
         /\ sampled.batch[i] = buffer[sampled.indices[i] + 1]

C39_Witness ==
  /\ bufOp.name = "sample" /\ ~sampled.isNull /\ ~onlyPushes
  /\ Len(buffer) = capacity /\ capacity = 2 /\ pushCount > 3
  /\ position = 1
  /\ \E i \in DOMAIN sampled.indices : sampled.indices[i] = 1

\* C38: after every tuneHyperparams call, the scheduler's recorded exploration
\* floor (currentEpsEnd) equals the agent's epsEnd, whatever combination of
\* rules fired in the call.
C38_RecordedFloorIsAgentFloor ==
  callCount > 0 => sched.currentEpsEnd = agent.epsEnd

\* The last tuneHyperparams call returned an adjustment with one of the reasons.
Adjusted(reasons) == \E i \in DOMAIN adjustments : adjustments[i] \in reasons

\* C40: over any telemetry sequence, lrScale stays within [0.2, 1] and every
\* value the scheduler writes to the agent lies within its bound: learning
\* rate in [LR_MIN, LR_MAX], exploration floor in [0.01, 0.3], exploration
\* decay in [5000, 200000], n-step horizon in [1, 5], gamma in [0.9, 0.999]
\* and priority alpha in [0.1, 1].
C40_WritesWithinBounds ==
  /\ sched.lrScale >= 2000 /\ sched.lrScale <= Unit
  /\ Adjusted({"cosine", "reduce_plateau", "recover"}) =>
       (agent.lr >= LR_MIN /\ agent.lr <= LR_MAX)
  /\ Adjusted({"stagnation", "regression", "revert", "revisitPenalty"}) =>
       (agent.epsEnd >= EPS_END_MIN /\ agent.epsEnd <= EPS_END_MAX)
  /\ Adjusted({"stagnation", "revert"}) =>
       (agent.epsDecay >= EPS_DECAY_MIN /\ agent.epsDecay <= EPS_DECAY_MAX)
  /\ Adjusted({"slow_fruit", "fast_fruit"}) => (n >= NSTEP_MIN /\ n <= NSTEP_MAX)
  /\ Adjusted({"longer_episodes", "self_crash"}) =>
       (gamma >= GAMMA_MIN /\ gamma <= GAMMA_MAX)
  /\ Adjusted({"heavy_tail", "light_tail"}) =>
       (agent.priorityAlpha >= Micro \div 10 /\ agent.priorityAlpha <= Micro)


\* C31: in auto mode, after every evaluation step the checkpoint in best/ is
\* the one saved for the scheduler's recorded best evaluation: it exists and
\* was taken at the episode updateBestEval recorded.
C31_BestDirHoldsRecordedBest ==
  (loopOp.name = "episode" /\ loopOp.evaluated /\ ~bestEval.isNull) =>
    /\ bestDir.present
    /\ bestDir.episode = bestEval.episode

\* C37: in auto mode, after the processing of every finished episode the
\* environment's board size is the size of the scheduler's current stage.
C37_BoardIsCurrentStage ==
  loopOp.name = "episode" => boardSize = BoardStages[boardIndex + 1].size


\* C33: when a rollback is requested and best/checkpoint.json does not exist,
\* the load fails before any mutation: the agent's parameters and
\* hyperparameters, the reward configuration, the board size and the episode
\* contexts are as before the attempt, the failure is logged, and the loop
\* goes on.
C33_MissingBestLeavesRunUntouched ==
  (loopOp.name = "episode" /\ loopOp.rollback # "none" /\ ~bestDir.present) =>
    /\ loopOp.rollback = "failed"
    /\ loopOp.logged
    /\ agentParams = loopOp.pre.agentParams
    /\ agent = loopOp.pre.agent
    /\ rewardConfig = loopOp.pre.rewardConfig
    /\ boardSize = loopOp.pre.boardSize
    /\ contextsEpoch = loopOp.pre.contextsEpoch
    /\ ~stopRequested

\* A rollback fails on a missing best/ and the same pass of the loop goes on
\* to write the periodic checkpoint.
C33_Witness ==
  /\ loopOp.name = "episode"
  /\ loopOp.rollback = "failed"
  /\ ~bestDir.present
  /\ ~bestEval.isNull
  /\ \E i \in 1..Len(loopOp.saved) : loopOp.saved[i].reason = "periodic"

\* C32: a periodic checkpoint is saved only when at least
\* checkpointIntervalEpisodes episodes and at least checkpointIntervalMinutes
\* minutes have both passed since the last saved checkpoint of any reason (or
\* since the start when there is none), and any two extra checkpoints
\* (board_change, best_eval) are at least minSaveCooldownMinutes apart.
C32_CheckpointSpacing ==
  \A i \in 1..Len(loopOp.saved) :
    LET rec == loopOp.saved[i]
    IN /\ rec.reason = "periodic" =>
            /\ rec.episode - rec.prev.episode >= checkpointIntervalEpisodes
            /\ rec.at - (IF rec.prev.any THEN rec.prev.at ELSE DateNow(StartTime))
                 >= checkpointIntervalMinutes * MinuteMs
       /\ (rec.reason \in {"board_change", "best_eval"} /\ rec.prev.extra) =>
            rec.at - rec.prev.extraAt >= minSaveCooldownMinutes * MinuteMs

\* An extra checkpoint written after a periodic one that itself followed an
\* earlier extra checkpoint.
C32_Witness ==
  \E i \in 1..Len(loopOp.saved) :
    LET rec == loopOp.saved[i]
    IN /\ rec.reason \in {"board_change", "best_eval"}
       /\ rec.prev.reason = "periodic"
       /\ rec.prev.extra
       /\ rec.prev.extraAt < rec.prev.at


\* C36: in runTraining every shaped transition pushed into the replay buffer
\* folds raw transitions of a single episode of a single environment: its
\* state and its next state belong to the same episode of the same
\* environment.
C36_SamplesWithinOneEpisode ==
  \A i \in 1..Len(emitted) :
    /\ emitted[i].s.env = emitted[i].ns.env
    /\ emitted[i].s.ep = emitted[i].ns.ep
====
